---------------------------- MODULE Spec2Model ----------------------------
(***************************************************************************)
(* x402-bch-express: the payment middleware of index.js                    *)
(* (computeRoutePatterns, findMatchingRoute, resolveMinAmountRequired,     *)
(* buildPaymentRequirements, decodePaymentHeader, paymentMiddleware).      *)
(*                                                                         *)
(* Text that the code parses (route keys, request paths, price strings) is *)
(* a sequence of one-character strings; text the code only compares or     *)
(* forwards (network names, messages, header values) is a TLA+ string.     *)
(***************************************************************************)
EXTENDS Integers, Sequences, FiniteSets, TLC

(***************************************************************************)
(* Characters and strings                                                  *)
(***************************************************************************)
Digits == <<"0", "1", "2", "3", "4", "5", "6", "7", "8", "9">>

UpperChars == <<"A", "B", "C", "D", "E", "F", "G", "H", "I", "J", "K", "L", "M",
                "N", "O", "P", "Q", "R", "S", "T", "U", "V", "W", "X", "Y", "Z">>

LowerChars == <<"a", "b", "c", "d", "e", "f", "g", "h", "i", "j", "k", "l", "m",
                "n", "o", "p", "q", "r", "s", "t", "u", "v", "w", "x", "y", "z">>

IsDigit(c) == \E i \in DOMAIN Digits : Digits[i] = c

DigitVal(c) == (CHOOSE i \in DOMAIN Digits : Digits[i] = c) - 1

IsSpace(c) == c \in {" ", "\t", "\n"}

\* String.prototype.toUpperCase / toLowerCase on one character
UpperChar(c) ==
    IF \E i \in DOMAIN LowerChars : LowerChars[i] = c
    THEN UpperChars[CHOOSE i \in DOMAIN LowerChars : LowerChars[i] = c]
    ELSE c

LowerChar(c) ==
    IF \E i \in DOMAIN UpperChars : UpperChars[i] = c
    THEN LowerChars[CHOOSE i \in DOMAIN UpperChars : UpperChars[i] = c]
    ELSE c

toUpperCase(cs) == [i \in DOMAIN cs |-> UpperChar(cs[i])]

toLowerCase(cs) == [i \in DOMAIN cs |-> LowerChar(cs[i])]

\* the characters of cs as one string
RECURSIVE Join(_)
Join(cs) == IF cs = <<>> THEN "" ELSE Head(cs) \o Join(Tail(cs))

\* String.prototype.trim
RECURSIVE TrimStart(_)
TrimStart(cs) ==
    IF cs # <<>> /\ IsSpace(Head(cs)) THEN TrimStart(Tail(cs)) ELSE cs

RECURSIVE TrimEnd(_)
TrimEnd(cs) ==
    IF cs # <<>> /\ IsSpace(cs[Len(cs)])
    THEN TrimEnd(SubSeq(cs, 1, Len(cs) - 1))
    ELSE cs

trim(cs) == TrimEnd(TrimStart(cs))

EndsWith(cs, suffix) ==
    /\ Len(cs) >= Len(suffix)
    /\ SubSeq(cs, Len(cs) - Len(suffix) + 1, Len(cs)) = suffix

(***************************************************************************)
(* JavaScript values of a route's price and minAmountRequired.  A finite   *)
(* number is the exact fraction num/den, den a power of ten.               *)
(***************************************************************************)
JsUndefined == [t |-> "undefined", num |-> 0, den |-> 1, cs |-> <<>>]

JsNull == [t |-> "null", num |-> 0, den |-> 1, cs |-> <<>>]

JsNaN == [t |-> "NaN", num |-> 0, den |-> 1, cs |-> <<>>]

JsInfinity == [t |-> "Infinity", num |-> 0, den |-> 1, cs |-> <<>>]

JsNumber(n, d) == [t |-> "number", num |-> n, den |-> d, cs |-> <<>>]

JsString(s) == [t |-> "string", num |-> 0, den |-> 1, cs |-> s]

\* value of a run of decimal digits
RECURSIVE DigitsValue(_)
DigitsValue(cs) ==
    IF cs = <<>> THEN 0
    ELSE 10 * DigitsValue(SubSeq(cs, 1, Len(cs) - 1)) + DigitVal(cs[Len(cs)])

RECURSIVE Pow10(_)
Pow10(k) == IF k = 0 THEN 1 ELSE 10 * Pow10(k - 1)

AllDigits(cs) == \A i \in DOMAIN cs : IsDigit(cs[i])

\* StringToNumber of an unsigned decimal literal: digits, digits. , .digits,
\* digits.digits; anything else is NaN
UnsignedLiteral(cs) ==
    LET dots == {i \in DOMAIN cs : cs[i] = "."}
    IN  IF cs = <<>> THEN JsNaN
        ELSE IF dots = {} THEN
            IF AllDigits(cs) THEN JsNumber(DigitsValue(cs), 1) ELSE JsNaN
        ELSE IF Cardinality(dots) > 1 THEN JsNaN
        ELSE LET d == CHOOSE i \in dots : TRUE
                 ip == SubSeq(cs, 1, d - 1)
                 fp == SubSeq(cs, d + 1, Len(cs))
             IN  IF Len(cs) = 1 \/ ~AllDigits(ip) \/ ~AllDigits(fp) THEN JsNaN
                 ELSE JsNumber(DigitsValue(ip) * Pow10(Len(fp)) + DigitsValue(fp),
                               Pow10(Len(fp)))

\* Number(string): white space is trimmed, the empty string is 0, an optional
\* sign, then a decimal literal (exponents, hex and Infinity literals are
\* outside the alphabet the model draws strings from)
StringToNumber(cs) ==
    LET s == trim(cs)
    IN  IF s = <<>> THEN JsNumber(0, 1)
        ELSE IF Head(s) = "-" THEN
            LET u == UnsignedLiteral(Tail(s))
            IN  IF u.t = "number" THEN JsNumber(0 - u.num, u.den) ELSE u
        ELSE IF Head(s) = "+" THEN UnsignedLiteral(Tail(s))
        ELSE UnsignedLiteral(s)

\* Number(value)
Number(v) ==
    CASE v.t = "string" -> StringToNumber(v.cs)
      [] v.t = "undefined" -> JsNaN
      [] v.t = "null" -> JsNumber(0, 1)
      [] OTHER -> v

\* Number.isFinite
isFinite(v) == v.t = "number"

\* Math.floor of a finite number
floor(v) == v.num \div v.den

\* String(integer), for integers below 10^21
RECURSIVE NatToString(_)
NatToString(n) ==
    IF n < 10 THEN <<Digits[n + 1]>>
    ELSE NatToString(n \div 10) \o <<Digits[(n % 10) + 1]>>

String(n) == IF n < 0 THEN <<"-">> \o NatToString(0 - n) ELSE NatToString(n)

(***************************************************************************)
(* resolveMinAmountRequired                                                *)
(***************************************************************************)
DEFAULT_MIN_AMOUNT == 1000

\* trimmed.replace(/[^0-9.]/g, '')
StripNonNumeric(cs) == SelectSeq(cs, LAMBDA c : IsDigit(c) \/ c = ".")

\* /sat(s|oshis)?$/i.test(trimmed)
HasSatSuffix(cs) ==
    LET l == toLowerCase(cs)
    IN  \/ EndsWith(l, <<"s", "a", "t">>)
        \/ EndsWith(l, <<"s", "a", "t", "s">>)
        \/ EndsWith(l, <<"s", "a", "t", "o", "s", "h", "i", "s">>)

\* /^[0-9]+$/u.test(trimmed)
IsDigitString(cs) == cs # <<>> /\ AllDigits(cs)

\* the result is [err |-> TRUE] when the function throws, else the amount
AmountError == [err |-> TRUE, amount |-> 0]

AmountOk(n) == [err |-> FALSE, amount |-> n]

PriceAmount(price) ==
    IF price.t = "number" /\ price.num > 0 THEN AmountOk(floor(price))
    ELSE IF price.t = "string" THEN
        LET trimmed == trim(price.cs)
            numeric == StringToNumber(StripNonNumeric(trimmed))
        IN  IF /\ isFinite(numeric) /\ numeric.num > 0
               /\ (HasSatSuffix(trimmed) \/ IsDigitString(trimmed))
            THEN AmountOk(floor(numeric))
            ELSE AmountOk(DEFAULT_MIN_AMOUNT)
    ELSE AmountOk(DEFAULT_MIN_AMOUNT)

\* resolveMinAmountRequired falling back to the price when minAmountRequired
\* is not a positive finite number
resolveMinAmountRequiredFallingBack(routeConfig) ==
    LET minAmount == Number(routeConfig.minAmountRequired)
    IN  IF /\ routeConfig.minAmountRequired.t \notin {"undefined", "null"}
           /\ isFinite(minAmount) /\ minAmount.num > 0
        THEN AmountOk(floor(minAmount))
        ELSE PriceAmount(routeConfig.price)

resolveMinAmountRequired(routeConfig) ==
    IF routeConfig.minAmountRequired.t \notin {"undefined", "null"} THEN
        LET minAmount == Number(routeConfig.minAmountRequired)
        IN  IF ~isFinite(minAmount) \/ minAmount.num <= 0
            THEN AmountError
            ELSE AmountOk(floor(minAmount))
    ELSE PriceAmount(routeConfig.price)

(***************************************************************************)
(* computeRoutePatterns                                                    *)
(*                                                                         *)
(* A route map is [network, entries]: network is the reserved key (the     *)
(* empty string when it is not set), entries the other keys in the order   *)
(* of Object.entries.  An entry's value is a bare price (kind "bare": the  *)
(* number or string is in price) or an object (kind "object") with         *)
(* minAmountRequired, price, network (hasNetwork: the object has the       *)
(* property) and config.resource (hasResource: it is a string).            *)
(***************************************************************************)
DEFAULT_NETWORK == "bch"

\* a || b on strings: the empty string is falsy
OrElse(a, b) == IF a # "" THEN a ELSE b

\* normalizedValue giving a bare price the default network always
normalizedValueDefaultNetwork(routes, value) ==
    [price |-> value.price,
     minAmountRequired |-> value.minAmountRequired,
     network |-> IF value.hasNetwork THEN value.network ELSE DEFAULT_NETWORK,
     hasResource |-> value.hasResource, resource |-> value.resource]

normalizedValue(routes, value) ==
    IF value.kind = "bare"
    THEN [price |-> value.price,
          minAmountRequired |-> JsUndefined,
          network |-> OrElse(routes.network, DEFAULT_NETWORK),
          hasResource |-> FALSE, resource |-> ""]
    ELSE [price |-> value.price,
          minAmountRequired |-> value.minAmountRequired,
          network |-> IF value.hasNetwork THEN value.network
                      ELSE OrElse(routes.network, DEFAULT_NETWORK),
          hasResource |-> value.hasResource, resource |-> value.resource]

\* pattern.split(/\s+/): the pieces between runs of white space, an empty
\* piece before a leading run and after a trailing one
RECURSIVE SplitFrom(_, _, _)
SplitFrom(cs, i, cur) ==
    IF i > Len(cs) THEN <<cur>>
    ELSE IF IsSpace(cs[i]) THEN
        LET rest == {j \in i..Len(cs) : ~IsSpace(cs[j])}
            j == IF rest = {} THEN Len(cs) + 1
                 ELSE CHOOSE k \in rest : \A m \in rest : k <= m
        IN  <<cur>> \o SplitFrom(cs, j, <<>>)
    ELSE SplitFrom(cs, i + 1, Append(cur, cs[i]))

SplitWhitespace(cs) == SplitFrom(cs, 1, <<>>)

includes(cs, c) == \E i \in DOMAIN cs : cs[i] = c

\* .replace(/[$()+.?^{|}]/g, '\\$&')
RegexSpecials == {"$", "(", ")", "+", ".", "?", "^", "{", "|", "}"}

RECURSIVE EscapeSpecials(_)
EscapeSpecials(cs) ==
    IF cs = <<>> THEN <<>>
    ELSE (IF Head(cs) \in RegexSpecials THEN <<"\\", Head(cs)>> ELSE <<Head(cs)>>)
         \o EscapeSpecials(Tail(cs))

\* .replace(/\*/g, '.*?')
RECURSIVE ReplaceStars(_)
ReplaceStars(cs) ==
    IF cs = <<>> THEN <<>>
    ELSE (IF Head(cs) = "*" THEN <<".", "*", "?">> ELSE <<Head(cs)>>)
         \o ReplaceStars(Tail(cs))

\* .replace(/\[([^\]]+)\]/g, '[^/]+'): from the left, a "[" with a first "]"
\* at least two places later is replaced up to that "]"
RECURSIVE ReplaceParams(_, _)
ReplaceParams(cs, i) ==
    IF i > Len(cs) THEN <<>>
    ELSE LET closes == {j \in (i + 1)..Len(cs) : cs[j] = "]"}
             j == IF closes = {} THEN 0
                  ELSE CHOOSE k \in closes : \A m \in closes : k <= m
         IN  IF cs[i] = "[" /\ j > i + 1
             THEN <<"[", "^", "/", "]", "+">> \o ReplaceParams(cs, j + 1)
             ELSE <<cs[i]>> \o ReplaceParams(cs, i + 1)

\* .replace(/\//g, '\\/')
RECURSIVE EscapeSlashes(_)
EscapeSlashes(cs) ==
    IF cs = <<>> THEN <<>>
    ELSE (IF Head(cs) = "/" THEN <<"\\", "/">> ELSE <<Head(cs)>>)
         \o EscapeSlashes(Tail(cs))

regexPattern(path) ==
    <<"^">> \o EscapeSlashes(ReplaceParams(ReplaceStars(EscapeSpecials(path)), 1))
    \o <<"$">>

\* the verb and path of a key
keyParts(pattern) ==
    IF includes(pattern, " ") THEN SplitWhitespace(pattern) ELSE <<<<"*">>, pattern>>

keyVerb(pattern) ==
    LET parts == keyParts(pattern)
    IN  toUpperCase(IF parts[1] # <<>> THEN parts[1] ELSE <<"*">>)

keyPath(pattern) ==
    LET parts == keyParts(pattern)
    IN  IF parts[2] # <<>> THEN parts[2] ELSE parts[1]

(***************************************************************************)
(* new RegExp(regexPattern, 'i') and RegExp.prototype.test.  The sources   *)
(* regexPattern produces consist of "^", "$", escaped characters, ".*?",   *)
(* character classes and literal characters.                               *)
(***************************************************************************)
\* the tokens of a regex source between "^" and "$"; <<"error">> stands for
\* the SyntaxError of an unterminated character class
RECURSIVE RegexTokens(_, _)
RegexTokens(src, i) ==
    IF i > Len(src) THEN <<>>
    ELSE IF src[i] = "\\" THEN
        IF i = Len(src) THEN <<[k |-> "error", c |-> ""]>>
        ELSE <<[k |-> "lit", c |-> src[i + 1]]>> \o RegexTokens(src, i + 2)
    ELSE IF src[i] = "." /\ i + 2 <= Len(src) /\ src[i + 1] = "*" /\ src[i + 2] = "?"
        THEN <<[k |-> "any", c |-> ""]>> \o RegexTokens(src, i + 3)
    ELSE IF src[i] = "[" THEN
        IF i + 5 <= Len(src) /\ SubSeq(src, i + 1, i + 5) = <<"^", "\\", "/", "]", "+">>
        THEN <<[k |-> "segment", c |-> ""]>> \o RegexTokens(src, i + 6)
        ELSE IF i + 1 <= Len(src) /\ src[i + 1] = "]"
        THEN <<[k |-> "none", c |-> ""]>> \o RegexTokens(src, i + 2)
        ELSE <<[k |-> "error", c |-> ""]>>
    ELSE <<[k |-> "lit", c |-> src[i]]>> \o RegexTokens(src, i + 1)

\* the tokens of a whole source "^...$"
SourceTokens(src) == RegexTokens(SubSeq(src, 2, Len(src) - 1), 1)

RegexIsValid(src) == \A i \in DOMAIN SourceTokens(src) : SourceTokens(src)[i].k # "error"

\* does toks[i..] match s[j..] up to the end of s (flag i: letters compare
\* without case; "." matches no line terminator)
RECURSIVE MatchFrom(_, _, _, _)
MatchFrom(toks, i, s, j) ==
    IF i > Len(toks) THEN j = Len(s) + 1
    ELSE CASE toks[i].k = "lit" ->
                /\ j <= Len(s)
                /\ LowerChar(s[j]) = LowerChar(toks[i].c)
                /\ MatchFrom(toks, i + 1, s, j + 1)
           [] toks[i].k = "any" ->
                \E e \in j..(Len(s) + 1) :
                    /\ \A m \in j..(e - 1) : s[m] # "\n"
                    /\ MatchFrom(toks, i + 1, s, e)
           [] toks[i].k = "segment" ->
                \E e \in (j + 1)..(Len(s) + 1) :
                    /\ \A m \in j..(e - 1) : s[m] # "/"
                    /\ MatchFrom(toks, i + 1, s, e)
           [] OTHER -> FALSE

\* pattern.test(normalizedPath)
test(src, s) == MatchFrom(SourceTokens(src), 1, s, 1)

\* one compiled entry: { verb, pattern, config }; pattern is kept as its source
compileEntry(routes, entry) ==
    [verb |-> keyVerb(entry.key),
     source |-> regexPattern(keyPath(entry.key)),
     config |-> normalizedValue(routes, entry.value)]

\* computeRoutePatterns throws for an empty path ("Invalid route pattern") and
\* when new RegExp rejects the source
computeRoutePatternsThrows(routes) ==
    \E i \in DOMAIN routes.entries :
        \/ keyPath(routes.entries[i].key) = <<>>
        \/ ~RegexIsValid(regexPattern(keyPath(routes.entries[i].key)))

\* the message of the error computeRoutePatterns throws: that of the first
\* entry, in map order, whose path is empty (line 37) or whose source new
\* RegExp rejects (line 49; the engine words the SyntaxError)
routePatternError(routes) ==
    LET failing == {i \in DOMAIN routes.entries :
                       \/ keyPath(routes.entries[i].key) = <<>>
                       \/ ~RegexIsValid(regexPattern(keyPath(routes.entries[i].key)))}
        i == CHOOSE k \in failing : \A m \in failing : k <= m
    IN  IF keyPath(routes.entries[i].key) = <<>>
        THEN "Invalid route pattern: " \o Join(routes.entries[i].key)
        ELSE "Invalid regular expression: /"
             \o Join(regexPattern(keyPath(routes.entries[i].key)))
             \o "/: Unterminated character class"

computeRoutePatterns(routes) ==
    [i \in DOMAIN routes.entries |-> compileEntry(routes, routes.entries[i])]

(***************************************************************************)
(* findMatchingRoute                                                       *)
(***************************************************************************)
\* path.split(/[?#]/)[0]
RECURSIVE BeforeQuery(_)
BeforeQuery(cs) ==
    IF cs = <<>> \/ Head(cs) \in {"?", "#"} THEN <<>>
    ELSE <<Head(cs)>> \o BeforeQuery(Tail(cs))

HexChars == <<"0", "1", "2", "3", "4", "5", "6", "7", "8", "9",
              "A", "B", "C", "D", "E", "F">>

IsHex(c) == \E i \in DOMAIN HexChars : HexChars[i] = UpperChar(c)

HexVal(c) == (CHOOSE i \in DOMAIN HexChars : HexChars[i] = UpperChar(c)) - 1

\* the characters of codes 32..126 (code 96 is written "<grave>")
AsciiPrintable ==
    <<" ", "!", "\"", "#", "$", "%", "&", "'", "(", ")", "*", "+", ",", "-", ".", "/",
      "0", "1", "2", "3", "4", "5", "6", "7", "8", "9", ":", ";", "<", "=", ">", "?",
      "@", "A", "B", "C", "D", "E", "F", "G", "H", "I", "J", "K", "L", "M", "N", "O",
      "P", "Q", "R", "S", "T", "U", "V", "W", "X", "Y", "Z", "[", "\\", "]", "^", "_",
      "<grave>", "a", "b", "c", "d", "e", "f", "g", "h", "i", "j", "k", "l", "m", "n", "o",
      "p", "q", "r", "s", "t", "u", "v", "w", "x", "y", "z", "{", "|", "}", "~">>

\* the character of a code below 128 ("<ctl>" for a control character other
\* than tab and line feed)
AsciiChar(b) ==
    IF b >= 32 /\ b <= 126 THEN AsciiPrintable[b - 31]
    ELSE IF b = 9 THEN "\t"
    ELSE IF b = 10 THEN "\n"
    ELSE "<ctl>"

\* is cs[i..i+2] an escape %XY
IsEscape(cs, i) ==
    /\ i + 2 <= Len(cs)
    /\ cs[i] = "%"
    /\ IsHex(cs[i + 1])
    /\ IsHex(cs[i + 2])

EscapeByte(cs, i) == 16 * HexVal(cs[i + 1]) + HexVal(cs[i + 2])

\* the number of continuation bytes a UTF-8 lead byte announces, -1 when the
\* byte cannot lead
Continuations(b) ==
    IF b < 128 THEN 0
    ELSE IF b >= 194 /\ b <= 223 THEN 1
    ELSE IF b >= 224 /\ b <= 239 THEN 2
    ELSE IF b >= 240 /\ b <= 244 THEN 3
    ELSE 0 - 1

\* the range the byte after lead byte b must lie in
SecondByteLow(b) == IF b = 224 THEN 160 ELSE IF b = 240 THEN 144 ELSE 128

SecondByteHigh(b) == IF b = 237 THEN 159 ELSE IF b = 244 THEN 143 ELSE 191

\* decodeURIComponent: [err |-> TRUE] is the URIError of a malformed escape;
\* a character outside ASCII is decoded to the one element "<U>"
RECURSIVE DecodeFrom(_, _)
DecodeFrom(cs, i) ==
    IF i > Len(cs) THEN [err |-> FALSE, out |-> <<>>]
    ELSE IF cs[i] # "%" THEN
        LET rest == DecodeFrom(cs, i + 1)
        IN  [err |-> rest.err, out |-> <<cs[i]>> \o rest.out]
    ELSE IF ~IsEscape(cs, i) THEN [err |-> TRUE, out |-> <<>>]
    ELSE LET b == EscapeByte(cs, i)
             n == Continuations(b)
             wellFormed ==
                 /\ n >= 0
                 /\ \A k \in 1..n :
                     /\ IsEscape(cs, i + 3 * k)
                     /\ EscapeByte(cs, i + 3 * k) >= (IF k = 1 THEN SecondByteLow(b) ELSE 128)
                     /\ EscapeByte(cs, i + 3 * k) <= (IF k = 1 THEN SecondByteHigh(b) ELSE 191)
         IN  IF ~wellFormed THEN [err |-> TRUE, out |-> <<>>]
             ELSE LET rest == DecodeFrom(cs, i + 3 * (n + 1))
                  IN  [err |-> rest.err,
                       out |-> <<IF n = 0 THEN AsciiChar(b) ELSE "<U>">> \o rest.out]

decodeURIComponent(cs) == DecodeFrom(cs, 1)

\* .replace(/\\/g, '/')
BackslashesToSlashes(cs) == [i \in DOMAIN cs |-> IF cs[i] = "\\" THEN "/" ELSE cs[i]]

\* .replace(/\/+/g, '/')
RECURSIVE CollapseSlashes(_)
CollapseSlashes(cs) ==
    IF cs = <<>> THEN <<>>
    ELSE IF Head(cs) = "/" /\ Len(cs) > 1 /\ cs[2] = "/" THEN CollapseSlashes(Tail(cs))
    ELSE <<Head(cs)>> \o CollapseSlashes(Tail(cs))

\* .replace(/(.+?)\/+$/, '$1'): the leftmost p and then the least k with
\* cs[p..k] free of line terminators and cs[k+1..] a run of slashes to the end
StripTrailingSlashes(cs) ==
    LET n == Len(cs)
        Fits(p, k) ==
            /\ \A m \in p..k : cs[m] # "\n"
            /\ \A m \in (k + 1)..n : cs[m] = "/"
        starts == {p \in 1..(n - 1) : \E k \in p..(n - 1) : Fits(p, k)}
    IN  IF starts = {} THEN cs
        ELSE LET p == CHOOSE q \in starts : \A r \in starts : q <= r
                 ends == {k \in p..(n - 1) : Fits(p, k)}
                 k == CHOOSE e \in ends : \A f \in ends : e <= f
             IN  SubSeq(cs, 1, k)

\* normalizePath recovering from the URIError by keeping the path undecoded
normalizePathUndecoded(path) ==
    LET decodedPath == decodeURIComponent(BeforeQuery(path))
    IN  [err |-> FALSE,
         out |-> StripTrailingSlashes(CollapseSlashes(BackslashesToSlashes(
                     IF decodedPath.err THEN BeforeQuery(path) ELSE decodedPath.out)))]

\* the try block of findMatchingRoute: [err |-> TRUE] when it throws
normalizePath(path) ==
    LET decodedPath == decodeURIComponent(BeforeQuery(path))
    IN  IF decodedPath.err THEN [err |-> TRUE, out |-> <<>>]
        ELSE [err |-> FALSE,
              out |-> StripTrailingSlashes(CollapseSlashes(
                          BackslashesToSlashes(decodedPath.out)))]

\* isCandidate without the comparison of the verb
isCandidateAnyVerb(route, normalizedPath, method) ==
    test(route.source, normalizedPath)

\* the filter of findMatchingRoute
isCandidate(route, normalizedPath, method) ==
    LET matchesPath == test(route.source, normalizedPath)
        matchesVerb == route.verb = <<"*">> \/ toUpperCase(method) = route.verb
    IN  matchesPath /\ matchesVerb

\* reduceLongest keeping the first candidate whatever the lengths
reduceFirst(routePatterns, candidates, a) == a

\* reduceLongest replacing the kept candidate by one of equal length too
RECURSIVE reduceLongestOrLast(_, _, _)
reduceLongestOrLast(routePatterns, candidates, a) ==
    IF candidates = <<>> THEN a
    ELSE LET b == Head(candidates)
         IN  reduceLongestOrLast(routePatterns, Tail(candidates),
                 IF Len(routePatterns[b].source) >= Len(routePatterns[a].source)
                 THEN b ELSE a)

\* candidates.reduce((a, b) => b.pattern.source.length > a.pattern.source.length ? b : a)
RECURSIVE reduceLongest(_, _, _)
reduceLongest(routePatterns, candidates, a) ==
    IF candidates = <<>> THEN a
    ELSE LET b == Head(candidates)
         IN  reduceLongest(routePatterns, Tail(candidates),
                 IF Len(routePatterns[b].source) > Len(routePatterns[a].source)
                 THEN b ELSE a)

\* the index in routePatterns of the route found, 0 for undefined
findMatchingRoute(routePatterns, path, method) ==
    LET normalizedPath == normalizePath(path)
    IN  IF normalizedPath.err THEN 0
        ELSE LET candidates ==
                     SelectSeq([i \in DOMAIN routePatterns |-> i],
                               LAMBDA i : isCandidate(routePatterns[i],
                                                      normalizedPath.out, method))
             IN  IF Len(candidates) = 0 THEN 0
                 ELSE reduceLongest(routePatterns, Tail(candidates), Head(candidates))

(***************************************************************************)
(* JavaScript values the handler only tests, compares and forwards: the    *)
(* fields of the payment payload and of the verification result, and the   *)
(* fields of a 402 body.  v is the text of the value.                      *)
(***************************************************************************)
Undefined == [t |-> "undefined", v |-> ""]

Null == [t |-> "null", v |-> ""]

Bool(b) == [t |-> "boolean", v |-> IF b THEN "true" ELSE "false"]

Num(text) == [t |-> "number", v |-> text]

Str(text) == [t |-> "string", v |-> text]

Obj(text) == [t |-> "object", v |-> text]

\* ToBoolean
Truthy(x) ==
    CASE x.t \in {"undefined", "null"} -> FALSE
      [] x.t = "boolean" -> x.v = "true"
      [] x.t = "number" -> x.v \notin {"0", "NaN"}
      [] x.t = "string" -> x.v # ""
      [] OTHER -> TRUE

\* a || b
Or(a, b) == IF Truthy(a) THEN a ELSE b

\* value == null
IsNullish(x) == x.t \in {"undefined", "null"}

(***************************************************************************)
(* buildPaymentRequirements (of config only resource is modelled; the      *)
(* other nested fields are copied to the requirement unchanged)            *)
(***************************************************************************)
DEFAULT_ASSET == "0x0000000000000000000000000000000000000001"

DefaultMaxTimeoutSeconds == 60

\* `${req.protocol}://${req.headers.host}${req.path}`
requestUrl(req) == req.protocol \o "://" \o req.host \o Join(req.path)

\* the list returned, when resolveMinAmountRequired gave amount
requirementsFor(payTo_, routeConfig, req, amount) ==
    <<[scheme |-> "utxo",
       network |-> OrElse(routeConfig.network, DEFAULT_NETWORK),
       minAmountRequired |-> String(amount),
       resource |-> IF routeConfig.hasResource THEN routeConfig.resource
                    ELSE requestUrl(req),
       payTo |-> payTo_,
       maxTimeoutSeconds |-> DefaultMaxTimeoutSeconds,
       asset |-> DEFAULT_ASSET,
       method |-> toUpperCase(req.method)]>>

\* [err |-> TRUE] when resolveMinAmountRequired throws
buildPaymentRequirements(payTo_, routeConfig, req) ==
    LET minAmountRequired == resolveMinAmountRequired(routeConfig)
    IN  IF minAmountRequired.err
        THEN [err |-> TRUE, message |-> "minAmountRequired must be a positive number",
              list |-> <<>>]
        ELSE [err |-> FALSE, message |-> "",
              list |-> requirementsFor(payTo_, routeConfig, req,
                                       minAmountRequired.amount)]

(***************************************************************************)
(* decodePaymentHeader.  The X-PAYMENT header is absent, the empty string, *)
(* a text JSON.parse rejects (kind "malformed"), or the JSON text of a     *)
(* value (kind "json"): null, a primitive, or an object with any of the    *)
(* four fields (json = "null", "primitive", "object").                     *)
(***************************************************************************)
x402Version == 1

requiredFields == <<"x402Version", "scheme", "network", "payload">>

NoPayload ==
    [x402Version |-> Undefined, scheme |-> Undefined, network |-> Undefined,
     payload |-> Undefined]

Thrown(msg) == [err |-> TRUE, message |-> msg, payload |-> NoPayload]

\* the fields of JSON.parse(headerValue)
parsedFields(headerValue) ==
    IF headerValue.json = "object" THEN headerValue.fields ELSE NoPayload

\* decodePaymentHeader without line 223: the client's version is kept
decodePaymentHeaderKeepingVersion(headerValue, version) ==
    IF headerValue.kind = "malformed"
    THEN Thrown("Unexpected token in JSON")
    ELSE IF headerValue.json = "null"
    THEN Thrown("Cannot read properties of null (reading 'x402Version')")
    ELSE LET decodedPayment == parsedFields(headerValue)
             missing == {i \in DOMAIN requiredFields :
                            IsNullish(decodedPayment[requiredFields[i]])}
         IN  IF missing # {}
             THEN Thrown("Missing required field in payment payload: "
                         \o requiredFields[CHOOSE i \in missing :
                                               \A j \in missing : i <= j])
             ELSE [err |-> FALSE, message |-> "", payload |-> decodedPayment]

decodePaymentHeader(headerValue, version) ==
    IF headerValue.kind = "malformed"
    THEN Thrown("Unexpected token in JSON")
    ELSE IF headerValue.json = "null"
    THEN Thrown("Cannot read properties of null (reading 'x402Version')")
    ELSE LET decodedPayment == parsedFields(headerValue)
             missing == {i \in DOMAIN requiredFields :
                            IsNullish(decodedPayment[requiredFields[i]])}
         IN  IF missing # {}
             THEN Thrown("Missing required field in payment payload: "
                         \o requiredFields[CHOOSE i \in missing :
                                               \A j \in missing : i <= j])
             ELSE [err |-> FALSE, message |-> "",
                   payload |-> [decodedPayment EXCEPT
                                   !.x402Version = Num(ToString(version))]]

(***************************************************************************)
(* resolveFetch and resolveFacilitatorHeaders.  A header map is a function *)
(* from header names to values.                                            *)
(***************************************************************************)
NoHeaders == [n \in {} |-> ""]

\* { ...a, ...b }
Spread(a, b) ==
    [n \in (DOMAIN a) \cup (DOMAIN b) |-> IF n \in DOMAIN b THEN b[n] ELSE a[n]]

\* let headers = { ...(facilitator.verifyHeaders || {}) }
staticHeaders(fac) == Spread(NoHeaders, fac.verifyHeaders)

\* mergedHeaders with the static headers laid over the hook's
mergedHeadersStaticWins(fac, generated) ==
    IF generated.hasVerify
    THEN Spread(generated.verify, staticHeaders(fac))
    ELSE staticHeaders(fac)

\* the headers after the hook resolved with generated
mergedHeaders(fac, generated) ==
    IF generated.hasVerify
    THEN Spread(staticHeaders(fac), generated.verify)
    ELSE staticHeaders(fac)

\* the init object of the fetch call
verifyRequest(fac, headers, decodedPayment, selectedPaymentRequirements) ==
    [url |-> fac.url \o "/verify",
     method |-> "POST",
     headers |-> Spread([n \in {"Content-Type"} |-> "application/json"], headers),
     body |-> [x402Version |-> x402Version,
               paymentPayload |-> decodedPayment,
               paymentRequirements |-> selectedPaymentRequirements]]

(***************************************************************************)
(* The gates and requests the model draws from                             *)
(***************************************************************************)
\* route values
BareValue(price) ==
    [kind |-> "bare", price |-> price, minAmountRequired |-> JsUndefined,
     hasNetwork |-> FALSE, network |-> "", hasResource |-> FALSE, resource |-> ""]

ObjectValue(minAmountRequired, price) ==
    [kind |-> "object", price |-> price, minAmountRequired |-> minAmountRequired,
     hasNetwork |-> FALSE, network |-> "", hasResource |-> FALSE, resource |-> ""]

Route(key, value) == [key |-> key, value |-> value]

\* the values of minAmountRequired: absent, null, 1500, 2.5, 0.5, 0, -1, NaN,
\* Infinity, "12", " 7 ", "0.9", "abc", ""
MinAmountValues ==
    {JsUndefined, JsNull, JsNumber(1500, 1), JsNumber(25, 10), JsNumber(5, 10),
     JsNumber(0, 1), JsNumber(0 - 1, 1), JsNaN, JsInfinity,
     JsString(<<"1", "2">>), JsString(<<" ", "7", " ">>), JsString(<<"0", ".", "9">>), JsString(<<"a", "b", "c">>),
     JsString(<<>>)}

\* the values of price: absent, 900, 2.5, 0.5, 0, -3, NaN, "1200 sats",
\* "0.5sat", "2.7 SATOSHIS", "15", "$1", "1.2.3sats", "sats"
PriceValues ==
    {JsUndefined, JsNumber(900, 1), JsNumber(25, 10), JsNumber(5, 10),
     JsNumber(0, 1), JsNumber(0 - 3, 1), JsNaN,
     JsString(<<"1", "2", "0", "0", " ", "s", "a", "t", "s">>), JsString(<<"0", ".", "5", "s", "a", "t">>), JsString(<<"2", ".", "7", " ", "S", "A", "T", "O", "S", "H", "I", "S">>),
     JsString(<<"1", "5">>), JsString(<<"$", "1">>), JsString(<<"1", ".", "2", ".", "3", "s", "a", "t", "s">>), JsString(<<"s", "a", "t", "s">>)}

\* one route "/p" for every minAmountRequired without a price and every
\* price without a minAmountRequired, and some with both
AmountRouteMaps ==
    {[network |-> "", entries |-> <<Route(<<"/", "p">>, ObjectValue(a, JsUndefined))>>] :
        a \in MinAmountValues}
    \cup
    {[network |-> "", entries |-> <<Route(<<"/", "p">>, ObjectValue(JsUndefined, p))>>] :
        p \in PriceValues}
    \cup
    {[network |-> "", entries |-> <<Route(<<"/", "p">>, BareValue(p))>>] :
        p \in {JsNumber(5, 10), JsString(<<"1", "5">>)}}
    \cup
    {[network |-> "", entries |-> <<Route(<<"/", "p">>, ObjectValue(a, JsNumber(900, 1)))>>] :
        a \in {JsNumber(1500, 1), JsNumber(0, 1), JsNull, JsString(<<"a", "b", "c">>)}}
    \cup
    {[network |-> "", entries |-> <<Route(<<"/", "p">>, ObjectValue(a, JsString(<<"1", "5">>)))>>] :
        a \in {JsNumber(25, 10), JsNaN}}

\* the routes of the unit tests, the overlapping routes of the spec, routes
\* with a network and a resource of their own (network: '' among them), a
\* catch-all route, and the empty route map
NamedRouteMaps ==
    {[network |-> "bch",
      entries |-> <<Route(<<"G", "E", "T", " ", "/", "p", "r", "o", "t", "e", "c", "t", "e", "d">>, ObjectValue(JsUndefined, JsNumber(1500, 1))),
                    Route(<<"/", "o", "p", "e", "n">>, BareValue(JsNumber(1200, 1)))>>],
     [network |-> "",
      entries |-> <<Route(<<"G", "E", "T", " ", "/", "a", "/", "*">>, ObjectValue(JsUndefined, JsNumber(900, 1))),
                    Route(<<"G", "E", "T", " ", "/", "a", "/", "r", "e", "p", "o", "r", "t", "s">>, ObjectValue(JsUndefined, JsNumber(1400, 1)))>>],
     [network |-> "bchtest",
      entries |-> <<Route(<<"p", "o", "s", "t", " ", "/", "p">>, BareValue(JsNumber(700, 1))),
                    Route(<<"/", "a", "/", "[", "i", "d", "]">>,
                          [ObjectValue(JsNumber(800, 1), JsUndefined) EXCEPT
                              !.hasNetwork = TRUE, !.network = "bch",
                              !.hasResource = TRUE, !.resource = "https://shop.example/item"])>>],
     [network |-> "bchtest",
      entries |-> <<Route(<<"/", "o", "p", "e", "n">>,
                          [ObjectValue(JsUndefined, JsNumber(1200, 1)) EXCEPT
                              !.hasNetwork = TRUE, !.network = ""])>>],
     [network |-> "",
      entries |-> <<Route(<<"/", "*">>, BareValue(JsNumber(1000, 1)))>>],
     [network |-> "", entries |-> <<>>]}

RouteMaps == AmountRouteMaps \cup NamedRouteMaps

Facilitators ==
    {[url |-> "http://localhost:4040/facilitator", hasFetch |-> TRUE, hasHook |-> FALSE,
      verifyHeaders |-> NoHeaders],
     [url |-> "http://localhost:4040/facilitator", hasFetch |-> TRUE, hasHook |-> TRUE,
      verifyHeaders |-> [n \in {"Authorization", "Content-Type"} |->
                           IF n = "Authorization" THEN "Bearer static"
                           ELSE "application/x402+json"]],
     [url |-> "http://localhost:4040/facilitator", hasFetch |-> FALSE, hasHook |-> TRUE,
      verifyHeaders |-> NoHeaders]}

PayToAddresses == {"bitcoincash:qq123exampleaddress0000000000000000"}

Paths == {<<"/", "p", "r", "o", "t", "e", "c", "t", "e", "d">>, <<"/", "o", "p", "e", "n">>, <<"/", "a", "/", "r", "e", "p", "o", "r", "t", "s", "/">>, <<"/", "p">>, <<"/", "/", "A", "/", "4", "2", "?", "x", "=", "1">>,
          <<"/", "m", "i", "s", "s", "i", "n", "g">>, <<"/", "%", "E", "0", "%", "A", "4", "%", "A">>,
          <<"/", "%">>, <<"/", "p", "/", "%", "F", "F">>}

Methods == {<<"G", "E", "T">>, <<"p", "o", "s", "t">>}

PayloadFields ==
    [x402Version : {Undefined, Num("1"), Num("2")},
     scheme : {Undefined, Str("utxo"), Str("exact")},
     network : {Null, Str("bch"), Str("bchtest")},
     payload : {Undefined, Obj("{some:data}")}]

HeaderValues ==
    {[kind |-> k, json |-> "", fields |-> NoPayload] : k \in {"absent", "empty", "malformed"}}
    \cup
    {[kind |-> "json", json |-> j, fields |-> NoPayload] : j \in {"null", "primitive"}}
    \cup
    {[kind |-> "json", json |-> "object", fields |-> f] : f \in PayloadFields}

\* the requests; the X-PAYMENT header is drawn from HeaderValues when
\* req.header('X-PAYMENT') reads it
Requests ==
    [path : Paths, method : Methods, protocol : {"http"}, host : {"example.com"}]

\* paymentHeader before line 246 ran
Unread == [kind |-> "unread", json |-> "", fields |-> NoPayload]

NoRequest == [path |-> <<>>, method |-> <<>>, protocol |-> "", host |-> ""]

\* how createAuthHeaders() can settle
HookOutcomes ==
    {[kind |-> "reject", message |-> m, generated |-> [hasVerify |-> FALSE, verify |-> NoHeaders]] :
        m \in {"token refresh failed", ""}}
    \cup
    {[kind |-> "resolve", message |-> "", generated |-> g] :
        g \in {[hasVerify |-> FALSE, verify |-> NoHeaders],
               [hasVerify |-> TRUE, verify |-> [n \in {"Authorization"} |-> "Bearer fresh"]],
               [hasVerify |-> TRUE,
                verify |-> [n \in {"Content-Type", "X-Trace"} |-> "text/plain"]]}}

NoResponse == [ok |-> FALSE, status |-> "", statusText |-> ""]

\* how fetchImpl(...) can settle
FetchOutcomes ==
    {[kind |-> "reject", message |-> m, response |-> NoResponse] :
        m \in {"network down", ""}}
    \cup
    {[kind |-> "resolve", message |-> "", response |-> r] :
        r \in {[ok |-> TRUE, status |-> "200", statusText |-> "OK"],
               [ok |-> FALSE, status |-> "500", statusText |-> "Internal Server Error"],
               [ok |-> FALSE, status |-> "404", statusText |-> ""]}}

NoResult ==
    [json |-> "null", isValid |-> Undefined, invalidReason |-> Undefined,
     payer |-> Undefined]

\* the values the facilitator can put in isValid
IsValidValues ==
    {Bool(TRUE), Bool(FALSE), Undefined, Null, Str("false"), Str(""), Num("1"), Num("0")}

VerificationResults ==
    {NoResult}
    \cup
    [json : {"object"}, isValid : IsValidValues,
     invalidReason : {Undefined, Str("insufficient amount"), Str("")},
     payer : {Undefined, Str("payer-id")}]

\* how response.json() can settle
JsonOutcomes ==
    {[kind |-> "reject", message |-> "Unexpected end of JSON input", result |-> NoResult]}
    \cup
    {[kind |-> "resolve", message |-> "", result |-> v] : v \in VerificationResults}

(***************************************************************************)
(* paymentMiddleware and paymentMiddlewareHandler                          *)
(*                                                                         *)
(* One gate (payTo, routePatterns, facilitator) handles requests one after *)
(* the other.  A request's handling runs from one await to the next in one *)
(* step; pc is where it is suspended:                                      *)
(*   "idle"          no request yet                                        *)
(*   "awaitHeaders"  await resolveFacilitatorHeaders(), no hook configured *)
(*   "awaitHook"     await facilitator.createAuthHeaders()                 *)
(*   "awaitFetch"    await fetchImpl(verifyUrl, ...)                       *)
(*   "awaitJson"     await response.json()                                 *)
(*   "done"          the promise the handler returned has settled          *)
(*                                                                         *)
(* A promise that rejects, and a call that throws, does so with an Error:  *)
(* an object with a message, which may be the empty string.                *)
(***************************************************************************)
VARIABLES
    payTo,                        \* the address given at construction
    routes,                       \* the route map given at construction
    routePatterns,                \* computeRoutePatterns(routes)
    thrown,                       \* the error computeRoutePatterns threw
    facilitator,                  \* [url, hasFetch, hasHook, verifyHeaders]
    pc,
    req,                          \* the request being handled
    matchingRoute,                \* index in routePatterns, 0 for undefined
    paymentHeader,                \* req.header('X-PAYMENT')
    paymentRequirements,          \* the list built for the request
    decodedPayment,
    selectedPaymentRequirements,  \* index in paymentRequirements, 0 for undefined
    nextCalls,                    \* number of calls of next()
    responses,                    \* the res.status(..).json(..) calls
    rejection,                    \* the error the handler's promise rejected with
    trace,                        \* the calls the handler made, in order
    fetchCalls,                   \* the init objects given to fetchImpl
    generated,                    \* how createAuthHeaders() settled
    response,                     \* how fetchImpl(...) settled
    verificationResult,           \* how response.json() settled
    parked                        \* the other requests in flight, suspended

vars == <<payTo, routes, routePatterns, thrown, facilitator, pc, req, matchingRoute, paymentHeader,
          paymentRequirements, decodedPayment, selectedPaymentRequirements,
          nextCalls, responses, rejection, trace, fetchCalls, generated,
          response, verificationResult, parked>>

ioVars == <<generated, response, verificationResult>>

\* no promise settled yet
Pending == [kind |-> "pending"]

gateVars == <<payTo, routes, routePatterns, thrown, facilitator>>

NoRejection == [rejected |-> FALSE, message |-> ""]

Rejected(msg) == [rejected |-> TRUE, message |-> msg]

\* Response402 leaving the requirements out of accepts
Response402WithoutAccepts(site, error, accepts, hasPayer, payer) ==
    [status |-> 402, site |-> site,
     body |-> [x402Version |-> x402Version, error |-> error, accepts |-> <<>>,
               hasPayer |-> hasPayer, payer |-> payer]]

\* res.status(402).json({ x402Version, error, accepts [, payer] }) at `site`
Response402(site, error, accepts, hasPayer, payer) ==
    [status |-> 402, site |-> site,
     body |-> [x402Version |-> x402Version, error |-> error, accepts |-> accepts,
               hasPayer |-> hasPayer, payer |-> payer]]

\* error.message || fallback
messageOr(message, fallback) == Or(Str(message), Str(fallback))

\* the handler returns after writing one 402
Write402(resp) ==
    /\ pc' = "done"
    /\ responses' = Append(responses, resp)
    /\ trace' = Append(trace, "res.status")
    /\ UNCHANGED <<nextCalls, rejection>>

\* CatchVerify rethrowing instead of answering: the handler's promise rejects
CatchVerifyRethrows(message) ==
    /\ pc' = "done"
    /\ rejection' = Rejected(message)
    /\ UNCHANGED <<nextCalls, responses, trace>>

\* the catch block of lines 315-322
CatchVerify(message) ==
    Write402(Response402("verifyCatch", messageOr(message, "Payment verification failed"),
                         paymentRequirements, FALSE, Undefined))

\* findRequirement comparing the scheme alone
findRequirementByScheme(list, decoded) ==
    LET hits == {i \in DOMAIN list : decoded.scheme = Str(list[i].scheme)}
    IN  IF hits = {} THEN 0 ELSE CHOOSE i \in hits : \A j \in hits : i <= j

\* paymentRequirements.find(...): the first requirement with the payload's
\* scheme and network, 0 for undefined
findRequirement(list, decoded) ==
    LET hits == {i \in DOMAIN list :
                    /\ decoded.scheme = Str(list[i].scheme)
                    /\ decoded.network = Str(list[i].network)}
    IN  IF hits = {} THEN 0 ELSE CHOOSE i \in hits : \A j \in hits : i <= j

\* CallFetch with the transport invoked a second time
CallFetchTwice(headers) ==
    LET init == verifyRequest(facilitator, headers, decodedPayment,
                              paymentRequirements[selectedPaymentRequirements])
    IN  /\ fetchCalls' = fetchCalls \o <<init, init>>
        /\ trace' = trace \o <<"fetch", "fetch">>
        /\ pc' = "awaitFetch"
        /\ UNCHANGED <<nextCalls, responses, rejection>>

\* const response = await fetchImpl(verifyUrl, {...})
CallFetch(headers) ==
    /\ fetchCalls' = Append(fetchCalls,
           verifyRequest(facilitator, headers, decodedPayment,
                         paymentRequirements[selectedPaymentRequirements]))
    /\ trace' = Append(trace, "fetch")
    /\ pc' = "awaitFetch"
    /\ UNCHANGED <<nextCalls, responses, rejection>>

\* passThrough with the call of next() forgotten: if (!matchingRoute) return
passThroughWithoutNext(base) == base

\* if (!matchingRoute) return next()
passThrough(base) == [base EXCEPT !.nextCalls = 1, !.trace = @ \o <<"next">>]

\* the handler from its call to its first await (lines 242-286), as the
\* values of the request's variables at that point; m is the result of
\* findMatchingRoute, built that of buildPaymentRequirements and h the
\* X-PAYMENT header
firstSegment(r, m, built, h) ==
    LET decoded == decodePaymentHeader(h, x402Version)
        selected == findRequirement(built.list, decoded.payload)
        base == [matchingRoute |-> m, paymentHeader |-> Unread,
                 paymentRequirements |-> <<>>,
                 decodedPayment |-> NoPayload, selected |-> 0, pc |-> "done",
                 nextCalls |-> 0, responses |-> <<>>, rejection |-> NoRejection,
                 trace |-> <<"findMatchingRoute">>]
        matched == [base EXCEPT !.paymentRequirements = built.list,
                                !.paymentHeader = h,
                                !.trace = @ \o <<"buildPaymentRequirements", "req.header">>]
        decodedOk == [matched EXCEPT !.decodedPayment = decoded.payload,
                                     !.trace = @ \o <<"decodePaymentHeader", "find">>]
        selectedOk == [decodedOk EXCEPT !.selected = selected,
                                        !.trace = @ \o <<"resolveFetch">>]
    IN  IF m = 0 THEN passThrough(base)
        ELSE IF built.err THEN
            [base EXCEPT !.rejection = Rejected(built.message),
                         !.trace = @ \o <<"buildPaymentRequirements">>]
        ELSE IF h.kind \in {"absent", "empty"} THEN
            [matched EXCEPT
                !.responses = <<Response402("noHeader", Str("X-PAYMENT header is required"),
                                            built.list, FALSE, Undefined)>>,
                !.trace = @ \o <<"res.status">>]
        ELSE IF decoded.err THEN
            [matched EXCEPT
                !.responses = <<Response402("decodeCatch",
                                    messageOr(decoded.message,
                                              "Invalid or malformed payment header"),
                                    built.list, FALSE, Undefined)>>,
                !.trace = @ \o <<"decodePaymentHeader", "res.status">>]
        ELSE IF selected = 0 THEN
            [decodedOk EXCEPT
                !.responses = <<Response402("noRequirement",
                                    Str("Unable to find matching payment requirements"),
                                    built.list, FALSE, Undefined)>>,
                !.trace = @ \o <<"res.status">>]
        ELSE IF ~facilitator.hasFetch THEN
            [selectedOk EXCEPT
                !.responses = <<Response402("verifyCatch",
                                    messageOr("fetch implementation is required for facilitator verification",
                                              "Payment verification failed"),
                                    built.list, FALSE, Undefined)>>,
                !.trace = @ \o <<"res.status">>]
        ELSE IF facilitator.hasHook THEN
            [selectedOk EXCEPT !.pc = "awaitHook",
                               !.trace = @ \o <<"createAuthHeaders">>]
        ELSE [selectedOk EXCEPT !.pc = "awaitHeaders"]

\* a request arrives, its X-PAYMENT header one of headerValues:
\* paymentMiddlewareHandler(req, res, next) up to its first await or its
\* return
HandleWith(r, headerValues) ==
    /\ pc = "idle"
    /\ LET m == findMatchingRoute(routePatterns, r.path, r.method)
           built == buildPaymentRequirements(payTo, routePatterns[m].config, r)
       IN  \E h \in (IF m = 0 \/ built.err THEN {Unread} ELSE headerValues) :
             LET s == firstSegment(r, m, built, h)
             IN
           /\ req' = r
           /\ paymentHeader' = s.paymentHeader
           /\ matchingRoute' = s.matchingRoute
           /\ paymentRequirements' = s.paymentRequirements
           /\ decodedPayment' = s.decodedPayment
           /\ selectedPaymentRequirements' = s.selected
           /\ pc' = s.pc
           /\ nextCalls' = s.nextCalls
           /\ responses' = s.responses
           /\ rejection' = s.rejection
           /\ trace' = s.trace
    /\ fetchCalls' = <<>>
    /\ generated' = Pending
    /\ response' = Pending
    /\ verificationResult' = Pending
    /\ UNCHANGED <<gateVars, parked>>

\* a request arrives with any X-PAYMENT header
Handle(r) == HandleWith(r, HeaderValues)

requestVars == <<req, matchingRoute, paymentHeader, paymentRequirements, decodedPayment,
                 selectedPaymentRequirements>>

\* resolveFacilitatorHeaders returned without a hook: line 286 resumes
HeadersResolved ==
    /\ pc = "awaitHeaders"
    /\ CallFetch(staticHeaders(facilitator))
    /\ UNCHANGED <<gateVars, parked, requestVars, ioVars>>

\* HookSettles going on to the transport also when the hook rejected
HookSettlesFetchingAnyway(o) ==
    /\ pc = "awaitHook"
    /\ CallFetch(mergedHeaders(facilitator, o.generated))
    /\ generated' = o
    /\ UNCHANGED <<gateVars, parked, requestVars, response, verificationResult>>

\* the promise of createAuthHeaders() settles: o is [kind |-> "reject",
\* message] or [kind |-> "resolve", generated |-> [hasVerify, verify]]
HookSettles(o) ==
    /\ pc = "awaitHook"
    /\ IF o.kind = "reject"
       THEN CatchVerify(o.message) /\ UNCHANGED fetchCalls
       ELSE CallFetch(mergedHeaders(facilitator, o.generated))
    /\ generated' = o
    /\ UNCHANGED <<gateVars, parked, requestVars, response, verificationResult>>

\* `Facilitator verification failed: ${response.status} ${response.statusText}`
verificationFailed(resp) ==
    "Facilitator verification failed: " \o resp.status \o " " \o resp.statusText

\* the promise of fetchImpl settles: o is [kind |-> "reject", message] or
\* [kind |-> "resolve", response |-> [ok, status, statusText]]
FetchSettles(o) ==
    /\ pc = "awaitFetch"
    /\ IF o.kind = "reject" THEN CatchVerify(o.message)
       ELSE IF ~o.response.ok THEN CatchVerify(verificationFailed(o.response))
       ELSE /\ pc' = "awaitJson"
            /\ trace' = Append(trace, "response.json")
            /\ UNCHANGED <<nextCalls, responses, rejection>>
    /\ response' = o
    /\ UNCHANGED <<gateVars, parked, requestVars, fetchCalls, generated, verificationResult>>

\* InvalidResponse without the two defaults: error and payer as received
InvalidResponseAsReceived(result) ==
    Response402("invalid", result.invalidReason, paymentRequirements, TRUE, result.payer)

\* the 402 of lines 307-312
InvalidResponse(result) ==
    Response402("invalid",
                Or(result.invalidReason, Str("Payment verification failed")),
                paymentRequirements, TRUE, Or(result.payer, Str("")))

\* the promise of response.json() settles: o is [kind |-> "reject", message]
\* or [kind |-> "resolve", result]; result is null (json = "null") or has
\* the fields isValid, invalidReason and payer
JsonSettles(o) ==
    /\ pc = "awaitJson"
    /\ IF o.kind = "reject" THEN CatchVerify(o.message)
       ELSE IF o.result.json = "null"
       THEN CatchVerify("Cannot read properties of null (reading 'isValid')")
       ELSE IF ~Truthy(o.result.isValid)
       THEN Write402(InvalidResponse(o.result))
       ELSE /\ pc' = "done"
            /\ nextCalls' = nextCalls + 1
            /\ trace' = Append(trace, "next")
            /\ UNCHANGED <<responses, rejection>>
    /\ verificationResult' = o
    /\ UNCHANGED <<gateVars, parked, requestVars, fetchCalls, generated, response>>


\* the state after paymentMiddleware(payTo, routes, facilitator) returned
Init ==
    /\ payTo \in PayToAddresses
    /\ facilitator \in Facilitators
    /\ routes \in RouteMaps
    /\ ~computeRoutePatternsThrows(routes)
    /\ routePatterns = computeRoutePatterns(routes)
    /\ thrown = NoRejection
    /\ pc = "idle"
    /\ req = NoRequest
    /\ matchingRoute = 0
    /\ paymentHeader = Unread
    /\ paymentRequirements = <<>>
    /\ decodedPayment = NoPayload
    /\ selectedPaymentRequirements = 0
    /\ nextCalls = 0
    /\ responses = <<>>
    /\ rejection = NoRejection
    /\ trace = <<>>
    /\ fetchCalls = <<>>
    /\ generated = Pending
    /\ response = Pending
    /\ verificationResult = Pending
    /\ parked = <<>>

Next ==
    \/ \E r \in Requests : Handle(r)
    \/ HeadersResolved
    \/ \E o \in HookOutcomes : HookSettles(o)
    \/ \E o \in FetchOutcomes : FetchSettles(o)
    \/ \E o \in JsonOutcomes : JsonSettles(o)

Spec == Init /\ [][Next]_vars

\* Spec with every pending promise settling at last: the runtime resumes a
\* handler whose awaited promise has settled, resolveFacilitatorHeaders
\* without a hook returns a promise that is already resolved, and the hook,
\* the transport and response.json() are taken to settle
LiveSpec ==
    /\ Spec
    /\ WF_vars(HeadersResolved)
    /\ WF_vars(\E o \in HookOutcomes : HookSettles(o))
    /\ WF_vars(\E o \in FetchOutcomes : FetchSettles(o))
    /\ WF_vars(\E o \in JsonOutcomes : JsonSettles(o))

\* what paymentMiddlewareHandler does for the request r with X-PAYMENT header
\* h when run from its call to its return with nothing else in between, the
\* hook settling as g, the transport as f and response.json() as v: the
\* calls of next(), the responses written, the verify requests sent and the
\* error its promise rejected with
HandledAlone(r, h, g, f, v) ==
    LET m == findMatchingRoute(routePatterns, r.path, r.method)
        built == buildPaymentRequirements(payTo, routePatterns[m].config, r)
        s == firstSegment(r, m, built, h)
        headers == IF facilitator.hasHook THEN mergedHeaders(facilitator, g.generated)
                   ELSE staticHeaders(facilitator)
        sent == <<verifyRequest(facilitator, headers, s.decodedPayment,
                                s.paymentRequirements[s.selected])>>
        caught(message, calls) ==
            [nextCalls |-> 0,
             responses |-> <<Response402("verifyCatch",
                                 messageOr(message, "Payment verification failed"),
                                 s.paymentRequirements, FALSE, Undefined)>>,
             fetchCalls |-> calls, rejection |-> NoRejection]
    IN  IF s.pc = "done"
        THEN [nextCalls |-> s.nextCalls, responses |-> s.responses,
              fetchCalls |-> <<>>, rejection |-> s.rejection]
        ELSE IF s.pc = "awaitHook" /\ g.kind = "reject" THEN caught(g.message, <<>>)
        ELSE IF f.kind = "reject" THEN caught(f.message, sent)
        ELSE IF ~f.response.ok THEN caught(verificationFailed(f.response), sent)
        ELSE IF v.kind = "reject" THEN caught(v.message, sent)
        ELSE IF v.result.json = "null"
        THEN caught("Cannot read properties of null (reading 'isValid')", sent)
        ELSE IF ~Truthy(v.result.isValid)
        THEN [nextCalls |-> 0,
              responses |-> <<Response402("invalid",
                                  Or(v.result.invalidReason,
                                     Str("Payment verification failed")),
                                  s.paymentRequirements, TRUE,
                                  Or(v.result.payer, Str("")))>>,
              fetchCalls |-> sent, rejection |-> NoRejection]
        ELSE [nextCalls |-> 1, responses |-> <<>>, fetchCalls |-> sent,
              rejection |-> NoRejection]

(***************************************************************************)
(* Several requests in flight on one gate.  JavaScript runs one handler at *)
(* a time, from one await to the next; while a handler is suspended at an  *)
(* await another request may arrive or another handler may resume.  The    *)
(* request variables above are those of the handler that runs; parked      *)
(* holds the locals, and the res and next seen so far, of the others.      *)
(***************************************************************************)
\* the requests in flight on the gate
MaxConcurrent == 2

\* the locals of the handler that runs, with what it did to its res and next
Own ==
    [pc |-> pc, req |-> req, matchingRoute |-> matchingRoute,
     paymentHeader |-> paymentHeader, paymentRequirements |-> paymentRequirements,
     decodedPayment |-> decodedPayment,
     selectedPaymentRequirements |-> selectedPaymentRequirements,
     nextCalls |-> nextCalls, responses |-> responses, rejection |-> rejection,
     trace |-> trace, fetchCalls |-> fetchCalls, generated |-> generated,
     response |-> response, verificationResult |-> verificationResult]

\* a request that has not arrived yet
Fresh ==
    [pc |-> "idle", req |-> NoRequest, matchingRoute |-> 0,
     paymentHeader |-> Unread, paymentRequirements |-> <<>>,
     decodedPayment |-> NoPayload, selectedPaymentRequirements |-> 0,
     nextCalls |-> 0, responses |-> <<>>, rejection |-> NoRejection,
     trace |-> <<>>, fetchCalls |-> <<>>, generated |-> Pending,
     response |-> Pending, verificationResult |-> Pending]

\* Resume with paymentRequirements held by the gate's closure instead of the
\* handler's: the handler resumed sees the list the last handler built
ResumeWithSharedRequirements(rec) ==
    /\ pc' = rec.pc
    /\ req' = rec.req
    /\ matchingRoute' = rec.matchingRoute
    /\ paymentHeader' = rec.paymentHeader
    /\ paymentRequirements' = paymentRequirements
    /\ decodedPayment' = rec.decodedPayment
    /\ selectedPaymentRequirements' = rec.selectedPaymentRequirements
    /\ nextCalls' = rec.nextCalls
    /\ responses' = rec.responses
    /\ rejection' = rec.rejection
    /\ trace' = rec.trace
    /\ fetchCalls' = rec.fetchCalls
    /\ generated' = rec.generated
    /\ response' = rec.response
    /\ verificationResult' = rec.verificationResult

\* a handler continues with its own locals (const and let inside
\* paymentMiddlewareHandler, lines 242-305) and its own req, res and next
Resume(rec) ==
    /\ pc' = rec.pc
    /\ req' = rec.req
    /\ matchingRoute' = rec.matchingRoute
    /\ paymentHeader' = rec.paymentHeader
    /\ paymentRequirements' = rec.paymentRequirements
    /\ decodedPayment' = rec.decodedPayment
    /\ selectedPaymentRequirements' = rec.selectedPaymentRequirements
    /\ nextCalls' = rec.nextCalls
    /\ responses' = rec.responses
    /\ rejection' = rec.rejection
    /\ trace' = rec.trace
    /\ fetchCalls' = rec.fetchCalls
    /\ generated' = rec.generated
    /\ response' = rec.response
    /\ verificationResult' = rec.verificationResult

\* the handler that runs is suspended, has returned or has not started, and
\* the event loop turns to the i-th other request
Switch(i) ==
    /\ i \in DOMAIN parked
    /\ parked[i] # Own
    /\ parked' = [parked EXCEPT ![i] = Own]
    /\ Resume(parked[i])
    /\ UNCHANGED gateVars

\* the gate of the unit tests, with and without an auth-header hook
ConcurrentRouteMaps == {m \in NamedRouteMaps : m.network = "bch"}

ConcurrentFacilitators == {f \in Facilitators : f.hasFetch}

\* GET /protected, GET /open and GET /missing
ConcurrentRequests ==
    {r \in Requests :
        /\ r.method = <<"G", "E", "T">>
        /\ r.path \in {<<"/", "p", "r", "o", "t", "e", "c", "t", "e", "d">>,
                       <<"/", "o", "p", "e", "n">>,
                       <<"/", "m", "i", "s", "s", "i", "n", "g">>}}

\* no X-PAYMENT header, a payload for the route's network and one for
\* another network
ConcurrentHeaders ==
    {h \in HeaderValues :
        \/ h.kind = "absent"
        \/ /\ h.kind = "json"
           /\ h.json = "object"
           /\ h.fields.x402Version = Num("1")
           /\ h.fields.scheme = Str("utxo")
           /\ h.fields.network \in {Str("bch"), Str("bchtest")}
           /\ h.fields.payload # Undefined}

ConcurrentHookOutcomes ==
    {o \in HookOutcomes :
        \/ o.kind = "reject" /\ o.message # ""
        \/ o.kind = "resolve" /\ "Authorization" \in DOMAIN o.generated.verify}

ConcurrentFetchOutcomes ==
    {o \in FetchOutcomes :
        \/ o.kind = "reject" /\ o.message # ""
        \/ o.kind = "resolve" /\ o.response.status \in {"200", "500"}}

ConcurrentJsonOutcomes ==
    {o \in JsonOutcomes :
        \/ o.kind = "reject"
        \/ /\ o.kind = "resolve"
           /\ o.result.json = "object"
           /\ \/ o.result.isValid = Bool(TRUE) /\ o.result.invalidReason = Undefined
                                                /\ o.result.payer = Undefined
              \/ o.result.isValid = Bool(FALSE) /\ o.result.invalidReason # Undefined
                                                 /\ o.result.payer # Undefined}

\* the state after paymentMiddleware(payTo, routes, facilitator) returned,
\* MaxConcurrent requests to come
ConcurrentInit ==
    /\ payTo \in PayToAddresses
    /\ facilitator \in ConcurrentFacilitators
    /\ routes \in ConcurrentRouteMaps
    /\ ~computeRoutePatternsThrows(routes)
    /\ routePatterns = computeRoutePatterns(routes)
    /\ thrown = NoRejection
    /\ pc = "idle"
    /\ req = NoRequest
    /\ matchingRoute = 0
    /\ paymentHeader = Unread
    /\ paymentRequirements = <<>>
    /\ decodedPayment = NoPayload
    /\ selectedPaymentRequirements = 0
    /\ nextCalls = 0
    /\ responses = <<>>
    /\ rejection = NoRejection
    /\ trace = <<>>
    /\ fetchCalls = <<>>
    /\ generated = Pending
    /\ response = Pending
    /\ verificationResult = Pending
    /\ parked = [i \in 1..(MaxConcurrent - 1) |-> Fresh]

ConcurrentNext ==
    \/ \E r \in ConcurrentRequests : HandleWith(r, ConcurrentHeaders)
    \/ HeadersResolved
    \/ \E o \in ConcurrentHookOutcomes : HookSettles(o)
    \/ \E o \in ConcurrentFetchOutcomes : FetchSettles(o)
    \/ \E o \in ConcurrentJsonOutcomes : JsonSettles(o)
    \/ \E i \in DOMAIN parked : Switch(i)

ConcurrentSpec == ConcurrentInit /\ [][ConcurrentNext]_vars

(***************************************************************************)
(* computeRoutePatterns and findMatchingRoute called on their own (both    *)
(* are exported): a route map is compiled, then one path and method are    *)
(* matched against the compiled patterns.  pc is "new" before              *)
(* computeRoutePatterns is called, "threw" when it threw, "compiled" when  *)
(* it returned, and "matched" when findMatchingRoute returned.             *)
(***************************************************************************)
\* route maps: those of the unit tests; overlapping routes; verbs in either
\* case; parameters and wildcards; keys with several blanks; keys without a
\* path, with a verb only, empty, or a tab; an unclosed "["; no routes
MatcherRouteMaps ==
    {[network |-> "bch",
      entries |-> <<Route(<<"G", "E", "T", " ", "/", "p", "r", "o", "t", "e", "c", "t", "e", "d">>, ObjectValue(JsUndefined, JsNumber(1500, 1))),
                    Route(<<"/", "o", "p", "e", "n">>, BareValue(JsNumber(1200, 1)))>>],
     [network |-> "bch",
      entries |-> <<Route(<<"G", "E", "T", " ", "/", "a", "/", "*">>, ObjectValue(JsUndefined, JsNumber(900, 1))),
                    Route(<<"G", "E", "T", " ", "/", "a", "/", "r", "e", "p", "o", "r", "t", "s">>, ObjectValue(JsUndefined, JsNumber(1400, 1)))>>],
     [network |-> "",
      entries |-> <<Route(<<"/", "a", "/", "b">>, BareValue(JsNumber(1400, 1))),
                    Route(<<"/", "a", "/", "*">>, BareValue(JsNumber(900, 1)))>>],
     [network |-> "",
      entries |-> <<Route(<<"p", "o", "s", "t", " ", "/", "p">>, BareValue(JsNumber(700, 1))),
                    Route(<<"/", "p">>, BareValue(JsNumber(300, 1)))>>],
     [network |-> "bchtest",
      entries |-> <<Route(<<"/", "a", "/", "[", "i", "d", "]">>, BareValue(JsNumber(500, 1))),
                    Route(<<"/", "a", "/", "[", "i", "d", "]", "/", "b">>, BareValue(JsNumber(600, 1))),
                    Route(<<"/", "A", "/", "B">>, BareValue(JsNumber(5, 1)))>>],
     [network |-> "",
      entries |-> <<Route(<<"/", "f", "i", "l", "e", "s", "/", "*", ".", "p", "d", "f">>, BareValue(JsNumber(10, 1))),
                    Route(<<"*">>, BareValue(JsNumber(100, 1)))>>],
     [network |-> "",
      entries |-> <<Route(<<"G", "E", "T", " ", " ", "/", "t", "w", "o">>, BareValue(JsNumber(5, 1))),
                    Route(<<" ", "/", "l", "e", "a", "d">>, BareValue(JsNumber(6, 1))),
                    Route(<<"G", "E", "T", " ", "/", "a", " ", "/", "b">>, BareValue(JsNumber(7, 1)))>>],
     [network |-> "",
      entries |-> <<Route(<<"G", "E", "T", " ", "/", "x">>, BareValue(JsNumber(700, 1)))>>],
     [network |-> "",
      entries |-> <<Route(<<"/", "a", "/">>, BareValue(JsNumber(5, 1)))>>],
     [network |-> "",
      entries |-> <<Route(<<"/", "a", "?", "b">>, BareValue(JsNumber(5, 1)))>>],
     [network |-> "",
      entries |-> <<Route(<<" ">>, ObjectValue(JsUndefined, JsNumber(1000, 1)))>>],
     [network |-> "",
      entries |-> <<Route(<<"/", "o", "p", "e", "n">>, BareValue(JsNumber(1, 1))),
                    Route(<<" ", " ", " ">>, BareValue(JsNumber(2, 1)))>>],
     [network |-> "",
      entries |-> <<Route(<<"G", "E", "T", " ">>, BareValue(JsNumber(1000, 1)))>>],
     [network |-> "",
      entries |-> <<Route(<<>>, BareValue(JsNumber(1000, 1)))>>],
     [network |-> "",
      entries |-> <<Route(<<"\t">>, BareValue(JsNumber(1000, 1)))>>],
     [network |-> "",
      entries |-> <<Route(<<"/", "o", "p", "e", "n">>, BareValue(JsNumber(1, 1))),
                    Route(<<"/", "a", "/", "[">>, BareValue(JsNumber(2, 1)))>>],
     [network |-> "bch", entries |-> <<>>],
     [network |-> "", entries |-> <<>>]}

MatcherPaths ==
    {<<"/", "p", "r", "o", "t", "e", "c", "t", "e", "d">>,
     <<"/", "P", "R", "O", "T", "E", "C", "T", "E", "D">>,
     <<"/", "o", "p", "e", "n">>,
     <<"/", "o", "p", "e", "n", "/">>,
     <<"/", "o", "p", "e", "n", "/", "/">>,
     <<"/", "u", "n", "k", "n", "o", "w", "n">>,
     <<"/", "a", "/", "r", "e", "p", "o", "r", "t", "s">>,
     <<"/", "a", "/", "b">>,
     <<"/", "a", "/", "b", "/", "c">>,
     <<"/", "a", "/", "b", "/">>,
     <<"/", "A", "/", "b">>,
     <<"/", "a", "/">>,
     <<"/", "a">>,
     <<"/">>,
     <<"/", "/">>,
     <<>>,
     <<"/", "%", "E", "0", "%", "A", "4", "%", "A">>,
     <<"/", "%">>,
     <<"/", "a", "%", "2", "F", "b">>,
     <<"/", "a", "/", "%", "0", "A", "/">>,
     <<"/", "%", "0", "A", "/">>,
     <<"/", "a", "/", "%", "0", "A">>,
     <<"\\", "a", "\\", "b", "\\">>,
     <<"/", "a", "/", "b", "?", "x", "=", "1">>,
     <<"/", "p", "#", "f", "r", "a", "g">>,
     <<"/", "p">>,
     <<"/", "x">>,
     <<"G", "E", "T", " ", "/", "x">>,
     <<"G", "E", "T">>,
     <<"/", "a", "/", "[", "i", "d", "]">>,
     <<"/", "a", "/", "*">>,
     <<"/", "f", "i", "l", "e", "s", "/", "x", ".", "p", "d", "f">>,
     <<"/", "f", "i", "l", "e", "s", "/", "x", "p", "d", "f">>,
     <<"/", "t", "w", "o">>,
     <<"/", "l", "e", "a", "d">>,
     <<"/", "a", "?", "b">>,
     <<"\t">>,
     <<"/", "a", "/", "4", "2", "/", "b">>,
     <<"/", "a", "/", "%", "C", "3", "%", "A", "9">>,
     <<"/", "a", "/", "[", "i", "d", "]", "/", "b">>,
     <<"/", "A", "/", "B">>,
     <<"/", "f", "i", "l", "e", "s", "/", "*", ".", "p", "d", "f">>,
     <<"*">>,
     <<"G", "E", "T", " ">>,
     <<"p", "o", "s", "t", " ", "/", "p">>}

MatcherMethods == {<<"G", "E", "T">>, <<"g", "e", "t">>, <<"P", "O", "S", "T">>, <<"D", "e", "l", "e", "t", "e">>}

NoFacilitator == [url |-> "", hasFetch |-> FALSE, hasHook |-> FALSE, verifyHeaders |-> NoHeaders]

\* computeRoutePatterns(routes)
Compile ==
    /\ pc = "new"
    /\ IF computeRoutePatternsThrows(routes)
       THEN /\ thrown' = Rejected(routePatternError(routes))
            /\ pc' = "threw"
            /\ UNCHANGED routePatterns
       ELSE /\ routePatterns' = computeRoutePatterns(routes)
            /\ pc' = "compiled"
            /\ UNCHANGED thrown
    /\ UNCHANGED <<payTo, routes, facilitator, requestVars, nextCalls, responses,
                   rejection, trace, fetchCalls, ioVars, parked>>

\* findMatchingRoute(routePatterns, path, method)
Match(path, method) ==
    /\ pc = "compiled"
    /\ req' = [path |-> path, method |-> method, protocol |-> "", host |-> ""]
    /\ matchingRoute' = findMatchingRoute(routePatterns, path, method)
    /\ trace' = Append(trace, "findMatchingRoute")
    /\ pc' = "matched"
    /\ UNCHANGED <<gateVars, paymentHeader, paymentRequirements, decodedPayment,
                   selectedPaymentRequirements, nextCalls, responses, rejection,
                   fetchCalls, ioVars, parked>>

MatcherInit ==
    /\ payTo = ""
    /\ facilitator = NoFacilitator
    /\ routes \in MatcherRouteMaps
    /\ routePatterns = <<>>
    /\ thrown = NoRejection
    /\ pc = "new"
    /\ req = NoRequest
    /\ matchingRoute = 0
    /\ paymentHeader = Unread
    /\ paymentRequirements = <<>>
    /\ decodedPayment = NoPayload
    /\ selectedPaymentRequirements = 0
    /\ nextCalls = 0
    /\ responses = <<>>
    /\ rejection = NoRejection
    /\ trace = <<>>
    /\ fetchCalls = <<>>
    /\ generated = Pending
    /\ response = Pending
    /\ verificationResult = Pending
    /\ parked = <<>>

MatcherNext ==
    \/ Compile
    \/ \E path \in MatcherPaths, method \in MatcherMethods : Match(path, method)

MatcherSpec == MatcherInit /\ [][MatcherNext]_vars

(***************************************************************************)
(* Properties                                                              *)
(***************************************************************************)
Done == pc = "done"

Matched == matchingRoute # 0

\* the handler made the call `step`
Called(step) == \E i \in DOMAIN trace : trace[i] = step

\* the number of calls of `step`
Calls(step) == Cardinality({i \in DOMAIN trace : trace[i] = step})

\* the handler wrote exactly one response, a 402
WroteOne402 == Len(responses) = 1 /\ responses[1].status = 402

\* C1: a completed handling performs exactly one of "call next()" and "write
\* an HTTP 402 response": never both, never neither, never two 402 writes.
C1_ExactlyOneOfNextOr402 ==
    Done => \/ nextCalls = 1 /\ responses = <<>>
            \/ nextCalls = 0 /\ WroteOne402

\* C2: on a request that matched a route, next() is called only if the
\* facilitator was contacted, answered with a success status, and the
\* verification result has isValid equal to true.
C2_NextOnlyOnIsValidTrue ==
    (Matched /\ nextCalls > 0) =>
        /\ Len(fetchCalls) = 1
        /\ response.kind = "resolve"
        /\ response.response.ok
        /\ verificationResult.kind = "resolve"
        /\ verificationResult.result.json = "object"
        /\ verificationResult.result.isValid = Bool(TRUE)

\* C3: when no route matches, the handler calls next() exactly once and does
\* nothing else: no response, the X-PAYMENT header is not read, no payment
\* requirement is built, and neither the hook nor the transport is invoked.
C3_UnmatchedOnlyCallsNext ==
    (Done /\ ~Matched) =>
        /\ nextCalls = 1
        /\ trace = <<"findMatchingRoute", "next">>
        /\ responses = <<>>
        /\ ~rejection.rejected
        /\ paymentHeader = Unread
        /\ paymentRequirements = <<>>
        /\ fetchCalls = <<>>
        /\ generated = Pending /\ response = Pending

C3_Witness ==
    /\ Done /\ ~Matched
    /\ routePatterns # <<>>
    /\ nextCalls = 1

\* C4: when a request matches a route and carries no X-PAYMENT header, the
\* handler writes one 402 whose error is "X-PAYMENT header is required" and
\* whose accepts[0] has the payTo of construction and the string form of the
\* route's resolved amount as minAmountRequired; next() is not called.  (A
\* handler that finished without reading the header did so whatever the
\* request carried, so also for a request without the header.)
C4_NoHeaderChallenge ==
    (Done /\ Matched /\ paymentHeader.kind \in {"absent", "unread"}) =>
        /\ nextCalls = 0
        /\ WroteOne402
        /\ responses[1].body.error = Str("X-PAYMENT header is required")
        /\ Len(responses[1].body.accepts) >= 1
        /\ responses[1].body.accepts[1].payTo = payTo
        /\ LET resolved == resolveMinAmountRequired(routePatterns[matchingRoute].config)
           IN  /\ ~resolved.err
               /\ responses[1].body.accepts[1].minAmountRequired = String(resolved.amount)


\* every call of `a` comes before every call of `b`, and `a` was called
CalledBefore(a, b) ==
    /\ Called(a)
    /\ \A i, j \in DOMAIN trace : (trace[i] = a /\ trace[j] = b) => i < j

\* the error was turned into the one 402 of the request, with `error`; the
\* handler's promise did not reject and next() was not called
TurnedInto402(error) ==
    /\ Done
    /\ ~rejection.rejected
    /\ nextCalls = 0
    /\ WroteOne402
    /\ responses[1].body.error = error

\* the 402 carries the message of the error caught (the code's fixed text
\* stands in for an empty message)
CarriesMessage(message) ==
    TurnedInto402(IF message # "" THEN Str(message)
                  ELSE Str("Payment verification failed"))

\* the i-th required field is the first one missing in the parsed header
FirstMissing(i) ==
    /\ paymentHeader.kind = "json"
    /\ paymentHeader.json # "null"
    /\ IsNullish(parsedFields(paymentHeader)[requiredFields[i]])
    /\ \A j \in 1..(i - 1) : ~IsNullish(parsedFields(paymentHeader)[requiredFields[j]])

\* C5: every protocol-level request error (header that is not valid JSON,
\* payload missing x402Version/scheme/network/payload, no matching
\* requirement, facilitator non-success status, transport rejection,
\* auth-hook rejection) is turned into a 402 carrying the error's message;
\* the handler's promise does not reject and next() is not called.
C5_ProtocolErrorsBecome402 ==
    /\ paymentHeader.kind = "malformed" => TurnedInto402(Str("Unexpected token in JSON"))
    /\ \A i \in DOMAIN requiredFields :
         FirstMissing(i) =>
            TurnedInto402(Str("Missing required field in payment payload: "
                              \o requiredFields[i]))
    /\ (Called("find") /\ selectedPaymentRequirements = 0) =>
         TurnedInto402(Str("Unable to find matching payment requirements"))
    /\ (response.kind = "resolve" /\ ~response.response.ok) =>
         TurnedInto402(Str("Facilitator verification failed: "
                           \o response.response.status \o " "
                           \o response.response.statusText))
    /\ response.kind = "reject" => CarriesMessage(response.message)
    /\ generated.kind = "reject" => CarriesMessage(generated.message)

C5_Witness ==
    /\ Done
    /\ generated.kind = "reject"
    /\ generated.message = "token refresh failed"
    /\ WroteOne402

\* C6: the transport is invoked at most once per request, and only after the
\* route matched, the header was present, the payload decoded and a
\* requirement was selected; a transport rejection yields a 402 whose error
\* contains the failure message, after exactly one transport invocation.
C6_TransportAtMostOnce ==
    /\ Len(fetchCalls) <= 1
    /\ Calls("fetch") = Len(fetchCalls)
    /\ fetchCalls # <<>> =>
         /\ Matched
         /\ paymentHeader.kind = "json"
         /\ selectedPaymentRequirements # 0
         /\ CalledBefore("findMatchingRoute", "fetch")
         /\ CalledBefore("req.header", "fetch")
         /\ CalledBefore("decodePaymentHeader", "fetch")
         /\ CalledBefore("find", "fetch")
    /\ response.kind = "reject" =>
         /\ Len(fetchCalls) = 1
         /\ CarriesMessage(response.message)

C6_Witness ==
    /\ Done
    /\ response.kind = "reject"
    /\ response.message = "network down"
    /\ Len(fetchCalls) = 1
    /\ WroteOne402

\* the facilitator answered with a success status and isValid: false
AnsweredInvalid ==
    /\ verificationResult.kind = "resolve"
    /\ verificationResult.result.json = "object"
    /\ verificationResult.result.isValid = Bool(FALSE)

\* the one 402 of the normal path (lines 307-312), accepts being the
\* route's requirements; next() is not called
RejectedOnNormalPath ==
    /\ Done
    /\ nextCalls = 0
    /\ ~rejection.rejected
    /\ WroteOne402
    /\ responses[1].site = "invalid"
    /\ responses[1].body.accepts = paymentRequirements
    /\ responses[1].body.hasPayer

\* C7 as stated: with isValid false the handler writes one 402 whose error
\* equals the result's invalidReason and whose payer equals the result's
\* payer, with accepts the route's requirements, on the normal path, and
\* does not call next().
C7_InvalidReportsReasonAndPayer ==
    AnsweredInvalid =>
        /\ RejectedOnNormalPath
        /\ responses[1].body.error = verificationResult.result.invalidReason
        /\ responses[1].body.payer = verificationResult.result.payer

NonEmptyString(x) == x.t = "string" /\ x.v # ""

\* C7 as amended: with isValid false the handler writes one 402 on the normal
\* path, accepts being the route's requirements, and does not call next();
\* its error is the result's invalidReason when that is a non-empty string
\* and "Payment verification failed" when it is absent or empty; its payer
\* is the result's payer when that is a non-empty string and "" when it is
\* absent or empty.
C7_InvalidReportsReasonOrDefault ==
    AnsweredInvalid =>
        LET result == verificationResult.result
        IN  /\ RejectedOnNormalPath
            /\ responses[1].body.error =
                 (IF NonEmptyString(result.invalidReason) THEN result.invalidReason
                  ELSE Str("Payment verification failed"))
            /\ responses[1].body.payer =
                 (IF NonEmptyString(result.payer) THEN result.payer ELSE Str(""))

C7_Witness ==
    /\ Done
    /\ AnsweredInvalid
    /\ verificationResult.result.invalidReason = Undefined
    /\ verificationResult.result.payer = Str("payer-id")
    /\ WroteOne402

\* the network of the matched route's requirement
MatchedNetwork ==
    LET network == routePatterns[matchingRoute].config.network
    IN  IF network # "" THEN network ELSE "bch"

\* C8: a decoded payload is selected for verification iff its scheme is
\* "utxo" and its network is the matched route's network; otherwise the
\* handler writes a 402 with error "Unable to find matching payment
\* requirements" and invokes neither the auth-header hook nor the transport.
C8_SelectionBySchemeAndNetwork ==
    Called("find") =>
        /\ (selectedPaymentRequirements # 0) <=>
              /\ decodedPayment.scheme = Str("utxo")
              /\ decodedPayment.network = Str(MatchedNetwork)
        /\ selectedPaymentRequirements = 0 =>
              /\ TurnedInto402(Str("Unable to find matching payment requirements"))
              /\ ~Called("createAuthHeaders")
              /\ ~Called("fetch")
              /\ fetchCalls = <<>>
              /\ generated = Pending /\ response = Pending

C8_Witness ==
    /\ Done
    /\ Called("find")
    /\ selectedPaymentRequirements = 0
    /\ decodedPayment.scheme = Str("utxo")
    /\ decodedPayment.network = Str("bch")
    /\ MatchedNetwork = "bchtest"
    /\ WroteOne402

\* the payload has the four fields, version 1, and the client's scheme,
\* network and payload
WellFormedPayload(p) ==
    /\ \A i \in DOMAIN requiredFields : p[requiredFields[i]] \notin {Undefined, Null}
    /\ p.x402Version = Num("1")
    /\ p.scheme = paymentHeader.fields.scheme
    /\ p.network = paymentHeader.fields.network
    /\ p.payload = paymentHeader.fields.payload

\* C9: every payload that leaves decodePaymentHeader, and every
\* paymentPayload sent to the facilitator, has the four fields x402Version,
\* scheme, network and payload, x402Version being 1 whatever the client
\* sent and the other three as the client sent them.
C9_DecodedPayloadNormalized ==
    /\ Called("find") => WellFormedPayload(decodedPayment)
    /\ \A i \in DOMAIN fetchCalls : WellFormedPayload(fetchCalls[i].body.paymentPayload)

C9_Witness ==
    /\ fetchCalls # <<>>
    /\ paymentHeader.fields.x402Version = Num("2")
    /\ fetchCalls[1].body.paymentPayload.x402Version = Num("1")

\* the decimal string of an integer that is at least 1
IsPositiveDecimal(cs) ==
    /\ cs # <<>>
    /\ \A i \in DOMAIN cs : cs[i] \in {"0", "1", "2", "3", "4", "5", "6", "7", "8", "9"}
    /\ cs[1] # "0"

\* C10: the minAmountRequired of every PaymentRequirement the gate emits, in
\* a 402 or in a verify request, is the decimal string of an integer that
\* is at least 1.
C10_AmountIsPositiveInteger ==
    /\ \A i \in DOMAIN responses :
         \A k \in DOMAIN responses[i].body.accepts :
            IsPositiveDecimal(responses[i].body.accepts[k].minAmountRequired)
    /\ \A i \in DOMAIN fetchCalls :
         IsPositiveDecimal(fetchCalls[i].body.paymentRequirements.minAmountRequired)

\* the handler's promise rejected and nothing was written to the client
RaisedNotReported ==
    /\ rejection.rejected
    /\ responses = <<>>
    /\ nextCalls = 0

\* C11: configuration errors are never turned into request outcomes: an
\* invalid route pattern leaves no gate (computeRoutePatterns threw), and an
\* invalid minAmountRequired and an unavailable transport surface at first
\* use as a raised error; none of them is answered with a 402.
C11_ConfigErrorsNotReported ==
    /\ computeRoutePatternsThrows(routes) =>
         /\ pc \in {"new", "threw"}
         /\ responses = <<>>
    /\ (Called("buildPaymentRequirements")
        /\ resolveMinAmountRequired(routePatterns[matchingRoute].config).err) =>
         RaisedNotReported
    /\ (Called("resolveFetch") /\ ~facilitator.hasFetch) =>
         RaisedNotReported

\* the path findMatchingRoute tests against the patterns
NormalizedPath == normalizePath(req.path)

\* the patterns that are candidates for the request
Candidates ==
    IF NormalizedPath.err THEN {}
    ELSE {i \in DOMAIN routePatterns :
             isCandidate(routePatterns[i], NormalizedPath.out, req.method)}

SourceLength(i) == Len(routePatterns[i].source)

\* C12: when at least one pattern is a candidate, findMatchingRoute returns
\* a candidate whose regex source is at least as long as that of every
\* other candidate; when there is no candidate it returns undefined.
C12_LongestSourceWins ==
    Called("findMatchingRoute") =>
        IF Candidates = {} THEN matchingRoute = 0
        ELSE /\ matchingRoute \in Candidates
             /\ \A j \in Candidates : SourceLength(matchingRoute) >= SourceLength(j)

\* the later, longer wildcard pattern wins over an earlier candidate that
\* has no wildcard
C12_Witness ==
    /\ pc = "matched"
    /\ Candidates = {1, 2}
    /\ matchingRoute = 2
    /\ SourceLength(2) > SourceLength(1)
    /\ ~includes(routes.entries[1].key, "*")
    /\ includes(routes.entries[2].key, "*")

\* does the key path k from position i describe s from position j to its
\* end: "*" stands for any run of characters on one line, "[name]" for one
\* non-empty run without "/", every other character for itself in either
\* case
RECURSIVE Describes(_, _, _, _)
Describes(k, i, s, j) ==
    IF i > Len(k) THEN j = Len(s) + 1
    ELSE IF k[i] = "*" THEN
        \E e \in j..(Len(s) + 1) :
            /\ \A m \in j..(e - 1) : s[m] # "\n"
            /\ Describes(k, i + 1, s, e)
    ELSE IF k[i] = "[" /\ \E c \in (i + 2)..Len(k) : k[c] = "]" THEN
        LET close == CHOOSE c \in (i + 1)..Len(k) :
                         k[c] = "]" /\ \A d \in (i + 1)..(c - 1) : k[d] # "]"
        IN  /\ close > i + 1
            /\ \E e \in (j + 1)..(Len(s) + 1) :
                /\ \A m \in j..(e - 1) : s[m] # "/"
                /\ Describes(k, close + 1, s, e)
    ELSE /\ j <= Len(s)
         /\ toLowerCase(<<s[j]>>) = toLowerCase(<<k[i]>>)
         /\ Describes(k, i + 1, s, j + 1)

\* the i-th route's path describes the whole normalized path and its verb
\* is "*" or the request's method in either case
Gates(i) ==
    /\ Describes(keyPath(routes.entries[i].key), 1, NormalizedPath.out, 1)
    /\ \/ routePatterns[i].verb = <<"*">>
       \/ toLowerCase(routePatterns[i].verb) = toLowerCase(req.method)

\* C13: a pattern is a candidate iff its regex matches the whole normalized
\* path, case-insensitively, and its verb is "*" or the request's method in
\* either case: the route returned gates the request, and a route is
\* returned whenever one gates it.
C13_CandidateIffPathAndVerb ==
    (Called("findMatchingRoute") /\ ~NormalizedPath.err) =>
        /\ matchingRoute # 0 => Gates(matchingRoute)
        /\ (\E i \in DOMAIN routePatterns : Gates(i)) => matchingRoute # 0
        /\ \A i \in DOMAIN routePatterns : (i \in Candidates) <=> Gates(i)

\* a route keyed POST whose path matches does not gate a GET request, which
\* the later route without verb gates
C13_Witness ==
    /\ pc = "matched"
    /\ Len(routePatterns) = 2
    /\ routePatterns[1].verb = <<"P", "O", "S", "T">>
    /\ req.method = <<"G", "E", "T">>
    /\ test(routePatterns[1].source, NormalizedPath.out)
    /\ matchingRoute = 2

\* decodeURIComponent rejects the request's path
MalformedPath == decodeURIComponent(BeforeQuery(req.path)).err

\* C14: for a request path with malformed percent-encoding findMatchingRoute
\* raises no error and returns no match, whatever the patterns; the handler
\* treats the request as unmatched and calls next().
C14_MalformedPathUnmatched ==
    (Called("findMatchingRoute") /\ MalformedPath) =>
        /\ matchingRoute = 0
        /\ ~rejection.rejected
        /\ Done => /\ nextCalls = 1
                   /\ responses = <<>>
                   /\ trace = <<"findMatchingRoute", "next">>

\* the path of the unit test, on a gate whose one route is the catch-all "/*"
C14_Witness ==
    /\ Done
    /\ req.path = <<"/", "%", "E", "0", "%", "A", "4", "%", "A">>
    /\ Len(routes.entries) = 1
    /\ routes.entries[1].key = <<"/", "*">>
    /\ nextCalls = 1

\* every entry of the route map is a bare price
AllBare == \A i \in DOMAIN routes.entries : routes.entries[i].value.kind = "bare"

\* the request's path is a key of the route map
PathIsKey == \E i \in DOMAIN routes.entries : routes.entries[i].key = req.path

\* the route returned has verb "*" and the config { price, network } of a
\* bare price, network being the global network or "bch"
ShorthandRouteFound ==
    /\ matchingRoute # 0
    /\ routePatterns[matchingRoute].verb = <<"*">>
    /\ routePatterns[matchingRoute].config =
         [price |-> routes.entries[matchingRoute].value.price,
          minAmountRequired |-> JsUndefined,
          network |-> IF routes.network # "" THEN routes.network ELSE "bch",
          hasResource |-> FALSE, resource |-> ""]

PlainPathKey(k) ==
    /\ \A i \in DOMAIN k : ~IsSpace(k[i]) /\ k[i] \notin {"?", "#", "%", "\\"}
    /\ \A i \in 1..(Len(k) - 1) : ~(k[i] = "/" /\ k[i + 1] = "/")
    /\ (Len(k) > 1 => k[Len(k)] # "/")
    /\ \A i \in DOMAIN k :
         k[i] = "[" => \E c \in (i + 2)..Len(k) :
                           k[c] = "]" /\ \A d \in (i + 1)..(c - 1) : k[d] # "]"

AllPlainPathKeys == \A i \in DOMAIN routes.entries : PlainPathKey(routes.entries[i].key)

Words(k) == SelectSeq(SplitWhitespace(k), LAMBDA w : w # <<>>)

\* the key has no path after its optional verb: it is empty or white space
\* only, or it is one word followed by white space
PathAbsent(k) ==
    \/ Words(k) = <<>>
    \/ /\ Len(Words(k)) = 1
       /\ IsSpace(k[Len(k)])
       /\ ~IsSpace(k[1])

\* C16: computeRoutePatterns fails with an "Invalid route pattern" error for
\* every key whose path part is empty or absent after the optional verb
\* (white-space-only keys, keys made of a verb followed only by white
\* space); for every other key it produces exactly one compiled entry.
C16_EmptyPathRejected ==
    /\ (\E i \in DOMAIN routes.entries : PathAbsent(routes.entries[i].key)) =>
         pc \in {"new", "threw"}
    /\ pc = "threw" =>
         \E i \in DOMAIN routes.entries :
            /\ PathAbsent(routes.entries[i].key)
            /\ thrown = Rejected("Invalid route pattern: " \o Join(routes.entries[i].key))
    /\ pc \in {"compiled", "matched"} =>
         Len(routePatterns) = Len(routes.entries)

\* the verify map the hook resolved with (empty when there is no hook, or
\* the hook gave none)
HookVerify ==
    IF generated.kind = "resolve" /\ generated.generated.hasVerify
    THEN generated.generated.verify
    ELSE NoHeaders

\* Content-Type: application/json, overlaid by verifyHeaders, overlaid by
\* the hook's verify map
ExpectedHeaders ==
    [n \in {"Content-Type"} \cup DOMAIN facilitator.verifyHeaders \cup DOMAIN HookVerify |->
        IF n \in DOMAIN HookVerify THEN HookVerify[n]
        ELSE IF n \in DOMAIN facilitator.verifyHeaders THEN facilitator.verifyHeaders[n]
        ELSE "application/json"]

\* config.resource when it is a string, else protocol://host/path
ExpectedResource ==
    IF routePatterns[matchingRoute].config.hasResource
    THEN routePatterns[matchingRoute].config.resource
    ELSE req.protocol \o "://" \o req.host \o Join(req.path)

Steps ==
    <<"findMatchingRoute", "buildPaymentRequirements", "req.header",
      "decodePaymentHeader", "find", "resolveFetch", "createAuthHeaders",
      "fetch", "response.json">>

\* the steps a request of this gate goes through when none fails: the hook
\* is a step only when one is configured
StepsOfGate ==
    SelectSeq(Steps, LAMBDA s : s # "createAuthHeaders" \/ facilitator.hasHook)

\* the steps taken so far, without the final next() or 402
StepsTaken == SelectSeq(trace, LAMBDA s : s \notin {"next", "res.status"})

\* the last step taken is s
EndedAt(s) == StepsTaken # <<>> /\ StepsTaken[Len(StepsTaken)] = s

\* C18: the steps of one request happen in the fixed order match, build
\* requirements, read header, decode, select requirement, resolve
\* transport, invoke auth-header hook, invoke transport, read verification
\* result, and no step runs after the first failing one; the hook is
\* invoked at most once, before the transport, and when the hook rejects
\* the transport is never invoked.
C18_StepsInOrderUntilFailure ==
    /\ Len(StepsTaken) <= Len(StepsOfGate)
    /\ StepsTaken = SubSeq(StepsOfGate, 1, Len(StepsTaken))
    /\ \A i \in DOMAIN trace :
         trace[i] \in {"next", "res.status"} => (i = Len(trace) /\ Done)
    /\ (Called("findMatchingRoute") /\ matchingRoute = 0) => EndedAt("findMatchingRoute")
    /\ (Called("buildPaymentRequirements")
        /\ resolveMinAmountRequired(routePatterns[matchingRoute].config).err) =>
         EndedAt("buildPaymentRequirements")
    /\ paymentHeader.kind \in {"absent", "empty"} => EndedAt("req.header")
    /\ (paymentHeader.kind = "malformed" \/ \E i \in DOMAIN requiredFields : FirstMissing(i)) =>
         EndedAt("decodePaymentHeader")
    /\ (Called("find") /\ selectedPaymentRequirements = 0) => EndedAt("find")
    /\ (Called("resolveFetch") /\ ~facilitator.hasFetch) => EndedAt("resolveFetch")
    /\ generated.kind = "reject" =>
         /\ EndedAt("createAuthHeaders")
         /\ fetchCalls = <<>>
    /\ (response.kind = "reject" \/ (response.kind = "resolve" /\ ~response.response.ok)) =>
         EndedAt("fetch")
    /\ Calls("createAuthHeaders") <= 1
    /\ Called("fetch") =>
         (facilitator.hasHook => CalledBefore("createAuthHeaders", "fetch"))

\* the hook rejected: the request ended with a 402 and no transport call
C18_Witness ==
    /\ Done
    /\ generated.kind = "reject"
    /\ trace = <<"findMatchingRoute", "buildPaymentRequirements", "req.header",
                 "decodePaymentHeader", "find", "resolveFetch", "createAuthHeaders",
                 "res.status">>
    /\ fetchCalls = <<>>

\* the config of the route the request matched
MatchedConfig == routePatterns[matchingRoute].config

\* buildPaymentRequirements threw the amount error: the handler's promise
\* rejected with it and no requirement was built
AmountRejected ==
    /\ rejection = Rejected("minAmountRequired must be a positive number")
    /\ paymentRequirements = <<>>

\* the requirement built carries the integer n as minAmountRequired
AmountIs(n) ==
    /\ ~rejection.rejected
    /\ Len(paymentRequirements) = 1
    /\ paymentRequirements[1].minAmountRequired = String(n)

\* a finite number greater than zero
PositiveFinite(v) == v.t = "number" /\ v.num > 0 /\ v.den > 0

\* the string, trimmed, ends in sat, sats or satoshis in any case, or
\* consists of digits only
SatoshiString(cs) ==
    LET t == toLowerCase(trim(cs))
    IN  \/ \E k \in {3, 4, 8} :
            /\ Len(t) >= k
            /\ SubSeq(t, Len(t) - k + 1, Len(t)) =
                 SubSeq(<<"s", "a", "t", "o", "s", "h", "i", "s">>, 1, k - 1)
                 \o (IF k = 3 THEN <<"t">> ELSE <<"s">>)
        \/ (t # <<>> /\ \A i \in DOMAIN t : IsDigit(t[i]))

\* the value of the digits and dots of a string
DigitsAndDots(cs) ==
    StringToNumber(SelectSeq(cs, LAMBDA c : IsDigit(c) \/ c = "."))

\* C19: resolveMinAmountRequired follows a strict priority: a set
\* minAmountRequired alone decides (the floor of its numeric value, or an
\* error when that is not finite or not positive); otherwise a finite
\* positive numeric price gives its floor; otherwise a string price that
\* ends in sat/sats/satoshis or is all digits gives the floor of its
\* digits-and-dots value; in every remaining case the result is 1000.
C19_AmountPriority ==
    Called("buildPaymentRequirements") =>
        LET m == MatchedConfig.minAmountRequired
            price == MatchedConfig.price
        IN  IF m.t \notin {"undefined", "null"} THEN
                IF PositiveFinite(Number(m))
                THEN AmountIs(Number(m).num \div Number(m).den)
                ELSE AmountRejected
            ELSE IF PositiveFinite(price) THEN AmountIs(price.num \div price.den)
            ELSE IF /\ price.t = "string"
                    /\ SatoshiString(price.cs)
                    /\ PositiveFinite(DigitsAndDots(price.cs))
            THEN AmountIs(DigitsAndDots(price.cs).num \div DigitsAndDots(price.cs).den)
            ELSE AmountIs(1000)

\* minAmountRequired 0 beside price 900: the error, not the price
C19_Witness ==
    /\ Done
    /\ Matched
    /\ MatchedConfig.minAmountRequired = JsNumber(0, 1)
    /\ MatchedConfig.price = JsNumber(900, 1)
    /\ AmountRejected

\* the raw path up to its query string or fragment
RawPath == BeforeQuery(req.path)

\* C20: for a request path that decodes without error, the path
\* findMatchingRoute tests against the patterns contains no query string or
\* fragment of the raw path, no backslash, no two consecutive slashes, and
\* no trailing slash unless it is exactly "/"; a non-empty raw path does not
\* normalize to the empty string.
C20_NormalizedPathShape ==
    (Called("findMatchingRoute") /\ ~MalformedPath) =>
        LET n == NormalizedPath.out
        IN  /\ ~includes(RawPath, "%") => (~includes(n, "?") /\ ~includes(n, "#"))
            /\ ~includes(n, "\\")
            /\ \A i \in 1..(Len(n) - 1) : ~(n[i] = "/" /\ n[i + 1] = "/")
            /\ Len(n) > 1 => n[Len(n)] # "/"
            /\ RawPath # <<>> => n # <<>>
            /\ RawPath = <<"/">> => n = <<"/">>

\* a request has been given to the handler
Handled == pc # "idle"

\* the handling is suspended at one of the three awaits: that of the
\* facilitator headers (the auth-header hook), of the transport, or of the
\* response body
Suspended == pc \in {"awaitHeaders", "awaitHook", "awaitFetch", "awaitJson"}

\* next() was called or a 402 was written
TerminalOutcome == Done /\ (nextCalls = 1 \/ WroteOne402)

\* C21: a request's handling suspends only at the auth-header hook call, the
\* transport call and the reading of the response body; if each of these
\* settles, every request eventually reaches a terminal outcome (next()
\* called or a 402 written); and a request waiting for the transport stays
\* there until the transport settles, the gate having no timeout.
C21_SettlingIOGivesOutcome ==
    /\ [](Handled => (Suspended \/ Done))
    /\ Handled ~> TerminalOutcome
    /\ [][pc = "awaitFetch" => (pc' = "awaitFetch" \/ response' # Pending)]_vars

\* the candidates whose regex source is as long as any candidate's
LongestCandidates ==
    {i \in Candidates : \A j \in Candidates : SourceLength(i) >= SourceLength(j)}

\* C24: when several candidates share the greatest regex source length,
\* findMatchingRoute returns the one that comes first in the compiled list,
\* which is in the order of the route map's keys; the route selected is
\* thus a function of the route map and of the request's path and method.
C24_FirstOfLongestWins ==
    /\ pc \in {"compiled", "matched"} =>
           /\ Len(routePatterns) = Len(routes.entries)
           /\ \A i \in DOMAIN routePatterns :
                  routePatterns[i] = compileEntry(routes, routes.entries[i])
    /\ (Called("findMatchingRoute") /\ Candidates # {}) =>
           /\ matchingRoute \in LongestCandidates
           /\ \A j \in LongestCandidates : matchingRoute <= j

\* two keys compile to sources of the same, greatest length and both are
\* candidates; the route of the first key is returned
C24_Witness ==
    /\ pc = "matched"
    /\ Len(routePatterns) = 2
    /\ LongestCandidates = {1, 2}
    /\ matchingRoute = 1
    /\ routes.entries[1].key # routes.entries[2].key
    /\ routes.entries[1].value # routes.entries[2].value

\* the body of a 402: x402Version 1, a non-empty error string, and as
\* accepts the one requirement built for the matched route and the request,
\* which is the one the verify request of the same request carried
Envelope(resp) ==
    /\ resp.body.x402Version = 1
    /\ NonEmptyString(resp.body.error)
    /\ Matched
    /\ Len(resp.body.accepts) = 1
    /\ resp.body.accepts = buildPaymentRequirements(payTo, MatchedConfig, req).list
    /\ resp.body.accepts[1].resource = ExpectedResource
    /\ resp.body.accepts[1].payTo = payTo
    /\ \A i \in DOMAIN fetchCalls :
           fetchCalls[i].body.paymentRequirements = resp.body.accepts[1]

\* response.json() gave an object
ResultRead ==
    /\ verificationResult # Pending
    /\ verificationResult.kind = "resolve"
    /\ verificationResult.result.json = "object"

\* C23 as stated: every 402 has x402Version 1, a non-empty error string and
\* an accepts list of exactly the one requirement built for the matched
\* route and this request, the same one the verify request of the request
\* carried; payer appears only in the response to a verification result
\* whose isValid is false.
C23_EnvelopePayerOnlyForFalse ==
    \A i \in DOMAIN responses :
        responses[i].status = 402 =>
            /\ Envelope(responses[i])
            /\ responses[i].body.hasPayer =>
                   /\ ResultRead
                   /\ verificationResult.result.isValid = Bool(FALSE)

\* C23 as amended: every 402 has x402Version 1, a non-empty error string
\* and an accepts list of exactly the one requirement built for the matched
\* route and this request, the same one the verify request of the request
\* carried; payer appears only in the response to a verification result
\* whose isValid is falsy: false, absent, null, 0 or the empty string.
C23_EnvelopePayerOnlyForFalsy ==
    \A i \in DOMAIN responses :
        responses[i].status = 402 =>
            /\ Envelope(responses[i])
            /\ responses[i].body.hasPayer =>
                   /\ ResultRead
                   /\ verificationResult.result.isValid \in
                          {Bool(FALSE), Undefined, Null, Num("0"), Str("")}

\* a verify request was sent and the result came without isValid: the 402
\* carries the requirement sent and a payer
C23_Witness ==
    /\ Done
    /\ WroteOne402
    /\ Len(fetchCalls) = 1
    /\ ResultRead
    /\ verificationResult.result.isValid = Undefined
    /\ responses[1].site = "invalid"
    /\ responses[1].body.hasPayer
    /\ responses[1].body.accepts[1] = fetchCalls[1].body.paymentRequirements

\* the requests on the gate: the one whose handler runs and the others
InFlight == {Own} \cup {parked[i] : i \in DOMAIN parked}

\* what a request got: the calls of its next(), the responses written to
\* its res, the verify requests sent for it, the rejection of its handler
Outcome(rec) ==
    [nextCalls |-> rec.nextCalls, responses |-> rec.responses,
     fetchCalls |-> rec.fetchCalls, rejection |-> rec.rejection]

\* a finished request got what it would have got handled alone, and a
\* request that arrived was matched as findMatchingRoute matches its path
\* and method on the compiled list
SameAsAlone(rec) ==
    /\ rec.pc = "done" =>
           Outcome(rec) = HandledAlone(rec.req, rec.paymentHeader, rec.generated,
                                       rec.response, rec.verificationResult)
    /\ rec.pc # "idle" =>
           rec.matchingRoute = findMatchingRoute(routePatterns, rec.req.path,
                                                 rec.req.method)

\* two requests with the same path and method matched the same route
SameRoute ==
    \A a \in InFlight, b \in InFlight :
        (/\ a.pc # "idle"
         /\ b.pc # "idle"
         /\ a.req.path = b.req.path
         /\ a.req.method = b.req.method) => a.matchingRoute = b.matchingRoute

\* a step leaves the gate's payTo, route patterns and facilitator as they
\* are, and every other request as it is, unless it is the turn to that
\* request, which finds its state as it left it
Isolated ==
    /\ UNCHANGED <<payTo, routes, routePatterns, facilitator>>
    /\ DOMAIN parked' = DOMAIN parked
    /\ \A i \in DOMAIN parked :
           \/ parked'[i] = parked[i]
           \/ parked'[i] = Own /\ Own' = parked[i]

\* C22: with several requests in flight on one gate, under every
\* interleaving of their suspension points, each request's outcome (next or
\* 402, the 402 body and the verify request) is the one it would have had
\* handled alone; handling a request modifies neither the compiled route
\* patterns nor anything another request reads; and the same path and
\* method always match the same route.
C22_ConcurrentAsAlone ==
    /\ [](\A rec \in InFlight : SameAsAlone(rec))
    /\ []SameRoute
    /\ [][Isolated]_vars

\* a request got its 402 from the facilitator's verdict while another, for
\* another route, is suspended with its verify request sent
C22_Witness ==
    /\ Done
    /\ WroteOne402
    /\ responses[1].site = "invalid"
    /\ Len(parked) >= 1
    /\ parked[1].pc = "awaitJson"
    /\ Len(parked[1].fetchCalls) = 1
    /\ Matched
    /\ parked[1].matchingRoute # 0
    /\ parked[1].matchingRoute # matchingRoute
    /\ parked[1].paymentRequirements # paymentRequirements

=============================================================================
